---- MODULE Spec2Model ----
(***************************************************************************)
(* Survey coding pipeline (backend/core/logic.py, backend/core/processor.py *)
(* and the control surface of backend/api/routes.py).                       *)
(*                                                                          *)
(* Program strings are sequences of one-character strings, so that          *)
(* formatting, splitting and parsing are computed as the code computes      *)
(* them.  NaN and None are one-element sequences that no program string     *)
(* equals.                                                                  *)
(***************************************************************************)
EXTENDS Integers, Sequences, FiniteSets, TLC

\* ------------------------------------------------------------------ bounds
NumRows == 2
MaxNewLabelsBound == 1
MaxTasks == 2
MaxUnitCalls == 2
MaxQuestions == 2
MaxRuns == 2

\* ------------------------------------------------------- string primitives
NaN == <<"NaN">>
None == <<"None">>

Digits == {"0", "1", "2", "3", "4", "5", "6", "7", "8", "9"}

DigitVal(c) ==
  CASE c = "0" -> 0 [] c = "1" -> 1 [] c = "2" -> 2 [] c = "3" -> 3 [] c = "4" -> 4
    [] c = "5" -> 5 [] c = "6" -> 6 [] c = "7" -> 7 [] c = "8" -> 8 [] c = "9" -> 9

DigitChar(n) == <<"0", "1", "2", "3", "4", "5", "6", "7", "8", "9">>[n + 1]

\* str.isdigit(): non-empty and every character a digit
isdigit(s) == s # <<>> /\ \A i \in DOMAIN s : s[i] \in Digits

\* int(s) of a digit string
RECURSIVE int(_)
int(s) ==
  IF s = <<>> THEN 0
  ELSE 10 * int(SubSeq(s, 1, Len(s) - 1)) + DigitVal(s[Len(s)])

\* str(n) of a natural number
RECURSIVE decimal(_)
decimal(n) ==
  IF n < 10 THEN <<DigitChar(n)>>
  ELSE decimal(n \div 10) \o <<DigitChar(n % 10)>>

\* a formatting that drops the zero padding
fmt_unpadded(n) == decimal(n)

\* f"{n:02d}": at least two digits, zero-padded
fmt02(n) == IF n < 10 THEN <<"0">> \o decimal(n) ELSE decimal(n)

\* str.strip()
RECURSIVE strip(_)
strip(s) ==
  IF s = <<>> THEN s
  ELSE IF s[1] = " " THEN strip(Tail(s))
  ELSE IF s[Len(s)] = " " THEN strip(SubSeq(s, 1, Len(s) - 1))
  ELSE s

\* str.split(sep) for a one-character separator; split of "" is [""]
RECURSIVE split(_, _)
split(s, sep) ==
  IF \A i \in DOMAIN s : s[i] # sep THEN <<s>>
  ELSE LET k == CHOOSE i \in DOMAIN s :
                  s[i] = sep /\ \A j \in 1..(i - 1) : s[j] # sep
       IN <<SubSeq(s, 1, k - 1)>> \o split(SubSeq(s, k + 1, Len(s)), sep)

\* sep.join(xs)
RECURSIVE join(_, _)
join(xs, sep) ==
  IF xs = <<>> THEN <<>>
  ELSE IF Len(xs) = 1 THEN xs[1]
  ELSE xs[1] \o <<sep>> \o join(Tail(xs), sep)

\* re.findall(r'\d+', s): the maximal digit runs, left to right
RECURSIVE findall_digits(_)
findall_digits(s) ==
  IF \A i \in DOMAIN s : s[i] \notin Digits THEN <<>>
  ELSE LET a == CHOOSE i \in DOMAIN s :
                  s[i] \in Digits /\ \A j \in 1..(i - 1) : s[j] \notin Digits
           b == CHOOSE i \in a..Len(s) :
                  /\ \A j \in a..i : s[j] \in Digits
                  /\ (i = Len(s) \/ s[i + 1] \notin Digits)
       IN <<SubSeq(s, a, b)>> \o findall_digits(SubSeq(s, b + 1, Len(s)))

\* code point order of the characters that reach sorted()
ord(c) ==
  CASE c \in Digits -> 48 + DigitVal(c)
    [] c = " " -> 32
    [] c = ";" -> 59
    [] c = "[" -> 91
    [] c = "]" -> 93
    [] OTHER -> 97

RECURSIVE StrLess(_, _)
StrLess(a, b) ==
  IF a = <<>> THEN b # <<>>
  ELSE IF b = <<>> THEN FALSE
  ELSE IF a[1] = b[1] THEN StrLess(Tail(a), Tail(b))
  ELSE ord(a[1]) < ord(b[1])

SeqToSet(xs) == {xs[i] : i \in DOMAIN xs}

\* list(set): the orders in which a set may be iterated
Orderings(S) ==
  {f \in [1..Cardinality(S) -> S] : \A i, j \in DOMAIN f : i # j => f[i] # f[j]}

\* sorted(set of strings)
sorted(S) ==
  CHOOSE f \in Orderings(S) : \A i, j \in DOMAIN f : i < j => StrLess(f[i], f[j])

\* str.lower() on the characters of the model's alphabet
LowerChar(c) ==
  CASE c = "A" -> "a" [] c = "C" -> "c" [] c = "E" -> "e" [] c = "G" -> "g"
    [] c = "Z" -> "z" [] OTHER -> c

lower(s) == [i \in DOMAIN s |-> LowerChar(s[i])]

WordChars ==
  Digits \cup {"a", "b", "c", "d", "e", "f", "g", "h", "y", "z",
               "A", "C", "E", "G", "Z", "_"}

\* re.sub(r'\s+', ' ', s): runs of blanks collapse to one blank
RECURSIVE collapse_spaces(_)
collapse_spaces(s) ==
  IF Len(s) < 2 THEN s
  ELSE IF s[1] = " " /\ s[2] = " " THEN collapse_spaces(Tail(s))
  ELSE <<s[1]>> \o collapse_spaces(Tail(s))

\* logic.normalize_text
normalize_text(text) ==
  IF text = NaN THEN <<>>
  ELSE LET low == lower(text)
           kept == SelectSeq(low, LAMBDA c : c \in WordChars \/ c = " ")
       IN strip(collapse_spaces(kept))

\* ------------------------------------------------------------ program data
S77 == <<"7", "7">>
S99 == <<"9", "9">>
NEW_LABEL_NEEDED ==
  <<"N", "E", "W", "_", "L", "A", "B", "E", "L", "_", "N", "E", "E", "D", "E", "D">>

\* exclusive_codes / excluded_codes of logic.py (process_response, filter_exclusive_codes)
excluded_codes ==
  {<<"6", "6">>, S77, <<"8", "8">>, S99,
   <<"7", "7", "7">>, <<"8", "8", "8">>, <<"9", "9", "9">>}

\* excluded_codes of process_other_columns: the sentinels and '00'
other_excluded_codes == excluded_codes \cup {<<"0", "0">>}

\* the reserved integers of get_next_valid_code
reserved_ints == {66, 77, 88, 99, 777, 888, 999}

\* Columns of the response table.  A closed column X has its codes in CX; an
\* open-ended column ends in _OTRO/_OTRA and merges into the column named by
\* stripping the suffix.
ClosedColumns == {"P1", "P9"}
OtherColumns == {"CP1_OTRO"}
TableColumns == {"P1", "CP1", "CP1_OTRO"}

is_other(col) == col \in OtherColumns

\* f'C{col}'
code_column(col) == IF col = "P1" THEN "CP1" ELSE "CP9"

\* col[:-5]
col_without_other(col) == "CP1"

\* col_base of group_labels_codes / process_responses
col_base(col) == IF is_other(col) THEN col_without_other(col) ELSE code_column(col)

\* A question name ('Nombre de la Pregunta') is the list of the names that
\* ' / ' separates in it, and whether it holds '(respuesta única)'.
Question(unica) == [text |-> <<"Q1">>, unica |-> unica]

\* str(row['Nombre de la Pregunta']).split(' / ')
split_questions(q) == {[text |-> <<q.text[n]>>, unica |-> q.unica] : n \in DOMAIN q.text}

\* The codebook sheet: rows (Id campo split on '-', Cod, Label, question).
Codebook(unica) ==
  << [IdCampo |-> <<"CP1">>, Cod |-> <<"1">>, Label |-> <<"A", "b">>,
      Pregunta |-> Question(unica)],
     [IdCampo |-> <<"CP1">>, Cod |-> <<"2">>, Label |-> <<"C", "d">>,
      Pregunta |-> Question(unica)],
     [IdCampo |-> <<"CP1">>, Cod |-> <<"9", "9">>, Label |-> <<"Z", "z">>,
      Pregunta |-> Question(unica)] >>

\* logic.group_labels_codes: question -> set of <<code, label>>
group_labels_codes(selected_questions, response_columns) ==
  LET hit(row) == \E col \in SeqToSet(response_columns) :
                    \E k \in DOMAIN row.IdCampo : col_base(col) = row.IdCampo[k]
      hits == {k \in DOMAIN selected_questions : hit(selected_questions[k])}
      qs == UNION {split_questions(selected_questions[i].Pregunta) : i \in hits}
  IN [q \in qs |->
        {<<selected_questions[i].Cod, selected_questions[i].Label>> :
           i \in {k \in hits : q \in split_questions(selected_questions[k].Pregunta)}}]

\* column_to_questions of process_responses
column_to_questions(selected_questions, col) ==
  UNION {split_questions(selected_questions[i].Pregunta) :
           i \in {k \in DOMAIN selected_questions :
                    \E n \in DOMAIN selected_questions[k].IdCampo :
                       col_base(col) = selected_questions[k].IdCampo[n]}}

\* -------------------------------------------------------- completion gateway
\* a gateway that does not poll the stop flag before calling the provider
request_openai_unpolled(stopped, outcome) == [response |-> outcome, calls |-> 1]

\* logic.request_openai: the stop flag is polled before the attempt; `outcome`
\* is what the provider gives once the attempts are over (a reply, or None
\* when every attempt failed).
request_openai(stopped, outcome) ==
  IF stopped THEN [response |-> None, calls |-> 0]
  ELSE [response |-> outcome, calls |-> 1]

\* a classifier that asks for a new label when the gateway returned nothing
assign_labels_none_needs_label(response_obj, is_single_response) ==
  IF response_obj = None THEN NEW_LABEL_NEEDED
  ELSE LET assigned_codes == strip(response_obj)
       IN IF is_single_response THEN strip(split(assigned_codes, ";")[1])
          ELSE assigned_codes

\* logic.assign_labels_to_response, from the gateway's result on
assign_labels_to_response(response_obj, is_single_response) ==
  IF response_obj = None THEN S77
  ELSE LET assigned_codes == strip(response_obj)
       IN IF is_single_response THEN strip(split(assigned_codes, ";")[1])
          ELSE assigned_codes

\* ---------------------------------------------------------------- minter
RECURSIVE skip_reserved(_)
skip_reserved(n) == IF n \in reserved_ints THEN skip_reserved(n + 1) ELSE n

SetMax(S) == IF S = {} THEN 0 ELSE CHOOSE m \in S : \A x \in S : x <= m

\* logic.get_next_valid_code
get_next_valid_code(existing_codes) ==
  LET valid_codes == {int(existing_codes[i]) :
                        i \in {k \in DOMAIN existing_codes :
                                 /\ isdigit(existing_codes[k])
                                 /\ int(existing_codes[k]) \notin reserved_ints}}
  IN fmt02(skip_reserved(SetMax(valid_codes) + 1))

question_rows(codes_df, question) ==
  {i \in DOMAIN codes_df : codes_df[i].Pregunta = question}

\* a minter that takes whatever non-empty label the provider proposes
create_new_labels_unfiltered(question, response, available_labels, codes_df, stopped, mintReply) ==
  LET normalized_response == normalize_text(lower(strip(response)))
      reusable == {l \in available_labels : normalize_text(l) = normalized_response}
      r == request_openai(stopped, mintReply)
  IN IF reusable # {}
       THEN {[label |-> l, calls |-> 0] : l \in reusable}
     ELSE IF r.response = None \/ strip(r.response) = <<>>
       THEN {[label |-> None, calls |-> r.calls]}
     ELSE {[label |-> strip(r.response), calls |-> r.calls]}

\* logic.create_new_labels: the set of possible [label, calls]; label None when
\* nothing is proposed or the proposal is refused
create_new_labels(question, response, available_labels, codes_df, stopped, mintReply) ==
  LET response_str == lower(strip(response))
      normalized_available == {normalize_text(l) : l \in available_labels}
      normalized_labels ==
        normalized_available \cup
        {normalize_text(lower(codes_df[i].Label)) : i \in question_rows(codes_df, question)}
      normalized_response == normalize_text(response_str)
      reusable == {l \in available_labels : normalize_text(l) = normalized_response}
      r == request_openai(stopped, mintReply)
      result == strip(r.response)
  IN IF reusable # {}
       THEN {[label |-> l, calls |-> 0] : l \in reusable}
     ELSE IF r.response = None
       THEN {[label |-> None, calls |-> r.calls]}
     ELSE IF /\ result # <<>>
             /\ \A i \in DOMAIN result : result[i] \notin {"(", ")"}
             /\ normalize_text(result) \notin normalized_labels
       THEN {[label |-> result, calls |-> r.calls]}
     ELSE {[label |-> None, calls |-> r.calls]}

\* logic.save_new_label
save_new_label(codes_df, question, label, new_code) ==
  LET rows == question_rows(codes_df, question)
      first == CHOOSE i \in rows : \A j \in rows : i <= j
  IN IF rows = {} THEN [codes_df |-> codes_df, created |-> FALSE]
     ELSE [codes_df |-> Append(codes_df,
                          [IdCampo |-> codes_df[first].IdCampo, Cod |-> new_code,
                           Label |-> label, Pregunta |-> question]),
           created |-> TRUE]

\* --------------------------------------------------------------- classifier
\* assigned_codes_list after re.findall, the reformatting and list(set(...)):
\* the possible lists, a set having no fixed iteration order
code_orders(found) ==
  Orderings({fmt02(int(found[i])) : i \in DOMAIN found})

\* final_codes of process_response (logic.py 379-386) from assigned_codes
final_codes(assigned_codes, is_single_response) ==
  {join(IF is_single_response /\ Len(o) > 1 THEN SubSeq(o, 1, 1) ELSE o, ";") :
     o \in code_orders(findall_digits(assigned_codes))}

first_row(S) == CHOOSE i \in S : \A j \in S : i <= j

\* The label-minting branch of process_response (logic.py 316-374): the set of
\* possible [assigned, codes_df, count, qdict, calls]
mint_branch(question, response, filtered_labels, count, max, codes_df, qdict, stopped, mintReplies) ==
  IF count >= max
    THEN {[assigned |-> S77, codes_df |-> codes_df, count |-> count,
           qdict |-> qdict, calls |-> 0]}
  ELSE
    { LET new_label == c.label
          existing_entry ==
            {i \in question_rows(codes_df, question) :
               lower(codes_df[i].Label) = lower(new_label)}
          existing_code_val == codes_df[first_row(existing_entry)].Cod
          existing_codes ==
            LET rows == question_rows(codes_df, question)
            IN [k \in 1..Cardinality(rows) |->
                  codes_df[CHOOSE i \in rows :
                             Cardinality({j \in rows : j < i}) = k - 1].Cod]
          new_code == get_next_valid_code(existing_codes)
          saved == save_new_label(codes_df, question, new_label, new_code)
      IN IF new_label = None \/ new_label = <<>>
           THEN [assigned |-> S77, codes_df |-> codes_df, count |-> count,
                 qdict |-> qdict, calls |-> c.calls]
         ELSE IF existing_entry # {}
           THEN [assigned |-> IF isdigit(existing_code_val)
                                THEN fmt02(int(existing_code_val))
                                ELSE existing_code_val,
                 codes_df |-> codes_df, count |-> count,
                 qdict |-> qdict, calls |-> c.calls]
         ELSE IF saved.created
           THEN [assigned |-> new_code, codes_df |-> saved.codes_df,
                 count |-> count + 1,
                 qdict |-> IF question \in DOMAIN qdict
                             THEN [qdict EXCEPT ![question] =
                                     @ \cup {<<new_code, new_label>>}]
                             ELSE [q \in DOMAIN qdict \cup {question} |->
                                     IF q = question THEN {<<new_code, new_label>>}
                                     ELSE qdict[q]],
                 calls |-> c.calls]
         ELSE [assigned |-> S77, codes_df |-> codes_df, count |-> count,
               qdict |-> qdict, calls |-> c.calls]
      : c \in UNION {create_new_labels(question, response, filtered_labels,
                                       codes_df, stopped, mintReply)
                       : mintReply \in mintReplies} }

\* logic.process_response: the set of possible
\* [final_codes, codes_df, count, qdict, calls] for one (question, response),
\* given the value of the stop flag when the classification call polls it
\* (stopped) and when the minting call polls it (stoppedAtMint), and what the
\* provider answers to the classification call (reply) and may answer to the
\* minting call (mintReplies)
process_response(question, response, data, count, max, codes_df, qdict, max_labels, stopped, stoppedAtMint, reply, mintReplies) ==
  LET is_single_response == question.unica \/ max_labels = 1
      filtered_labels == {x[2] : x \in {y \in data : y[1] \notin excluded_codes}}
      r == request_openai(stopped, reply)
      assigned_codes == assign_labels_to_response(r.response, is_single_response)
      branch ==
        IF assigned_codes = NEW_LABEL_NEEDED \/ assigned_codes = <<>>
          THEN mint_branch(question, response, filtered_labels, count, max,
                           codes_df, qdict, stoppedAtMint, mintReplies)
        ELSE {[assigned |-> assigned_codes, codes_df |-> codes_df, count |-> count,
               qdict |-> qdict, calls |-> 0]}
  IN UNION { { [final_codes |-> f, codes_df |-> b.codes_df, count |-> b.count,
                qdict |-> b.qdict, calls |-> r.calls + b.calls]
               : f \in final_codes(b.assigned, is_single_response) }
             : b \in branch }

\* ------------------------------------------------------- open-ended merge
\* ';'.join(f"{int(c):02d}" for c in str(x).split(';') if c.strip().isdigit())
\* (logic.py 499-501 and 635-637); str(nan) is 'nan'
normalize_cell(x) ==
  LET text == IF x = NaN THEN <<"n", "a", "n">> ELSE x
      parts == split(text, ";")
      kept == SelectSeq(parts, LAMBDA c : isdigit(strip(c)))
  IN join([i \in DOMAIN kept |-> fmt02(int(strip(kept[i])))], ";")

\* the cleaned code set of a ';'-separated cell (logic.py 669-675)
clean_code_set(text) ==
  LET parts == IF text # <<>> THEN SeqToSet(split(text, ";")) ELSE {}
  IN {fmt02(int(c)) : c \in {x \in parts : isdigit(x)}}

\* a merge rule that appends the replacement codes without a bracketed group
merge_codes_unbracketed(cell, assigned_codes) ==
  LET current_codes_set == clean_code_set(strip(cell))
      new_codes_set == clean_code_set(assigned_codes)
  IN join(sorted((current_codes_set \cup new_codes_set) \ {S77}), ";")

\* The open-ended merge rule (logic.py 669-697): the value stored in the base
\* cell from its current value and the newly assigned codes
merge_codes(cell, assigned_codes) ==
  LET current_codes_set == clean_code_set(strip(cell))
      new_codes_set == clean_code_set(assigned_codes)
      combined0 == current_codes_set \cup new_codes_set
      non_excluded_codes == combined0 \ other_excluded_codes
      combined_codes_set == IF non_excluded_codes # {} THEN non_excluded_codes
                            ELSE combined0
      remaining == current_codes_set \ {S77}
      replacement_codes == new_codes_set \ remaining
      replacement_codes_str == <<"[">> \o join(sorted(replacement_codes), ";") \o <<"]">>
      final ==
        IF S77 \in current_codes_set
          THEN IF replacement_codes # {}
                 THEN join(sorted(remaining), ";") \o
                      (IF remaining # {} THEN <<";">> \o replacement_codes_str
                       ELSE replacement_codes_str)
               ELSE join(sorted(remaining), ";")
        ELSE join(sorted(combined_codes_set), ";")
      final_codes_list == split(final, ";")
      filtered == SelectSeq(final_codes_list, LAMBDA c : c \notin other_excluded_codes)
      final_filtered_codes == IF filtered # <<>> THEN filtered ELSE final_codes_list
  IN join(final_filtered_codes, ";")

\* ------------------------------------------------------------------ inputs
\* max_labels default of process_response, and the per-call limit that
\* process_other_columns hands to it
DefaultMaxLabels == 6
OtherMaxNewLabels == 8

\* What the provider may answer to a classification prompt and to a minting
\* prompt; None is a gateway call whose attempts all failed.
ClassReplies ==
  { NEW_LABEL_NEEDED,
    <<"2", ";", "1">>,
    <<"2", ";", "7", "7", "7">>,
    <<"x">>,
    None }

MintReplies == { <<"E", "f">>, <<"a", "b", "!">>, None }

\* Rows of an uploaded table or of a checkpoint written by an earlier run.
RowKinds ==
  { [P1 |-> <<"z">>, CP1 |-> NaN, CP1_OTRO |-> NaN],
    [P1 |-> <<"z">>, CP1 |-> <<"0", "1">>, CP1_OTRO |-> NaN],
    [P1 |-> <<"a", "b">>, CP1 |-> NaN, CP1_OTRO |-> <<"y">>],
    [P1 |-> <<"y">>, CP1 |-> <<"7", "7">>, CP1_OTRO |-> <<"y">>],
    [P1 |-> NaN, CP1 |-> <<"1", ";", "7", "7">>, CP1_OTRO |-> <<"y">>] }

InputTables == [1..NumRows -> RowKinds]

\* The runs: the configured columns in order, whether they are multi-label,
\* whether the question text holds '(respuesta única)', and the skip directive.
RunProfiles ==
  { [names |-> <<"P1", "CP1_OTRO">>, multiLabel |-> FALSE, unica |-> FALSE, skip |-> FALSE],
    [names |-> <<"P1", "CP1_OTRO">>, multiLabel |-> TRUE, unica |-> FALSE, skip |-> TRUE],
    [names |-> <<"CP1_OTRO", "P1">>, multiLabel |-> TRUE, unica |-> TRUE, skip |-> TRUE],
    [names |-> <<"P9", "P1">>, multiLabel |-> TRUE, unica |-> FALSE, skip |-> FALSE] }

\* ColumnConfig of routes.py: multiLabel, maxLabels, maxNewLabels per column
ColumnsConfig(profile, mnl) ==
  [n \in DOMAIN profile.names |->
     [name |-> profile.names[n], multiLabel |-> profile.multiLabel,
      maxLabels |-> DefaultMaxLabels, maxNewLabels |-> mnl]]

NoTables == [responses_df |-> <<>>, codes_df |-> <<>>]

\* the sessions of the server, and the positional arity of
\* SurveyProcessor.process against the call process_survey_task makes
Sessions == {"s1", "s2"}
process_parameters == 4
process_arguments == 5

\* ------------------------------------------------------------------- state
VARIABLES
  responses_df,        \* the response table: row -> column -> cell
  codes_df,            \* the codebook given to process_responses
  updated_codes_df,    \* the codebook the run appends minted labels to
  questions_dict,      \* logic.questions_dict
  columns_config,      \* the per-column configuration of the run
  col_counters,        \* limit_labels['col_counters']
  PROCESS_STOPPED,     \* logic.PROCESS_STOPPED
  skip_first_uncoded,  \* the one-shot skip directive of process_responses
  MODIFIED_CELLS,      \* logic.MODIFIED_CELLS
  pc,                  \* where process_responses stands
  i,                   \* index of the column being processed
  j,                   \* index of the response value / row being processed
  k,                   \* index of the question an open-ended cell is classified against
  returned,            \* the tables process_responses returned
  saved,               \* the tables last written to the working checkpoint
  input,               \* the tables and directive the run was started on
  model_calls,         \* gateway calls that reached the provider
  minted_in,           \* labels minted while processing each column
  session_status,      \* session_manager.sessions[s]['status']
  session_config,      \* the config object sessions[s]['config'] refers to (0: none)
  config_skip,         \* config['skip_crash_row'] of each config object
  tasks,               \* the process_survey_task background tasks, in order of creation
  files,               \* which working checkpoint files exist in each session directory
  latest,              \* the tables last published as the latest downloadable snapshot
  unit,                \* a sequence of process_response calls on one codebook
  gw,                  \* one request_openai call, attempt by attempt
  merge,               \* one base cell through the open-ended merges of successive runs
  review               \* one review run of SurveyReviewer

route_vars == << session_status, session_config, config_skip, tasks, files >>

unit_vars == << unit, gw, merge, review >>

vars ==
  << responses_df, codes_df, updated_codes_df, questions_dict, columns_config,
     col_counters, PROCESS_STOPPED, skip_first_uncoded, MODIFIED_CELLS, pc, i, j, k,
     returned, saved, latest, input, model_calls, minted_in, route_vars, unit_vars >>

response_columns == [n \in DOMAIN columns_config |-> columns_config[n].name]

col == columns_config[i].name

config == columns_config[i]

\* responses_df[col].dropna().unique(): the distinct values in order of first
\* appearance
unique_responses(df, c) ==
  LET firsts == {r \in DOMAIN df :
                   df[r][c] # NaN /\ \A q \in 1..(r - 1) : df[q][c] # df[r][c]}
  IN [n \in 1..Cardinality(firsts) |->
        df[CHOOSE r \in firsts : Cardinality({q \in firsts : q < r}) = n - 1][c]]

\* mask = responses_df[col] == response
mask(df, c, response) == {r \in DOMAIN df : df[r][c] = response}

\* has_code of process_responses (logic.py 516-523)
has_code(df, c, code_col, response) ==
  \E r \in mask(df, c, response) :
     df[r][code_col] # NaN /\ strip(df[r][code_col]) # <<>>

\* the column-wide normalisation of a code column (logic.py 499-501, 635-637)
normalize_column(df, code_col) ==
  [r \in DOMAIN df |-> [df[r] EXCEPT ![code_col] = normalize_cell(@)]]

\* responses_df.loc[mask, code_column] = assigned_codes
write_codes(df, rows, code_col, value) ==
  [r \in DOMAIN df |-> IF r \in rows THEN [df[r] EXCEPT ![code_col] = value] ELSE df[r]]

\* no working checkpoint file in any session directory
NoFiles == [s \in Sessions |-> [responses |-> FALSE, codes |-> FALSE]]

\* no process_response call sequence and no gateway call under study
UnitIdle == unit = <<>> /\ gw = <<>> /\ merge = <<>> /\ review = <<>>

\* the session store after create_session and upload, before any request
NoRequests ==
  /\ session_status = [s \in Sessions |-> "idle"]
  /\ session_config = [s \in Sessions |-> 0]
  /\ config_skip = [c \in 1..MaxTasks |-> FALSE]
  /\ tasks = <<>>

\* Entry of process_responses (logic.py 433-468) on the loaded tables
Init ==
  /\ responses_df \in InputTables
  /\ \E profile \in RunProfiles, mnl \in 0..MaxNewLabelsBound :
        /\ codes_df = Codebook(profile.unica)
        /\ columns_config = ColumnsConfig(profile, mnl)
        /\ skip_first_uncoded = profile.skip
  /\ updated_codes_df = codes_df
  /\ questions_dict = group_labels_codes(codes_df, response_columns)
  /\ col_counters = [c \in ClosedColumns \cup OtherColumns |-> 0]
  /\ PROCESS_STOPPED = FALSE
  /\ MODIFIED_CELLS = {}
  /\ pc = "col_loop"
  /\ i = 1
  /\ j = 0
  /\ k = 0
  /\ returned = NoTables
  /\ saved = NoTables
  /\ latest = NoTables
  /\ input = [responses_df |-> responses_df, codes_df |-> codes_df,
              skip |-> skip_first_uncoded]
  /\ model_calls = 0
  /\ minted_in = [c \in ClosedColumns \cup OtherColumns |-> 0]
  /\ NoRequests
  /\ files = NoFiles
  /\ UnitIdle

\* the keys of questions_dict in insertion order (order of the codebook rows)
question_order(df, qdict) ==
  LET firsts == {r \in DOMAIN df :
                   /\ df[r].Pregunta \in DOMAIN qdict
                   /\ \A q \in 1..(r - 1) : df[q].Pregunta # df[r].Pregunta}
  IN [n \in 1..Cardinality(firsts) |->
        df[CHOOSE r \in firsts : Cardinality({q \in firsts : q < r}) = n - 1].Pregunta]

relevant_questions == column_to_questions(codes_df, col)

tables(r, c) == [responses_df |-> r, codes_df |-> c]

\* The values the stop flag may have at the two polls of one process_response
\* call (before the classification call, before the minting call):
\* stop_process may run at any moment of the call.
StopPolls ==
  {p \in [atClassify : BOOLEAN, atMint : BOOLEAN] :
     /\ PROCESS_STOPPED => p.atClassify
     /\ p.atClassify => p.atMint}

\* logic.stop_process, called while the run executes
Stop ==
  /\ pc # "returned"
  /\ ~PROCESS_STOPPED
  /\ PROCESS_STOPPED' = TRUE
  /\ UNCHANGED << route_vars, unit_vars >>
  /\ UNCHANGED << responses_df, codes_df, updated_codes_df, questions_dict,
                  columns_config, col_counters, skip_first_uncoded, MODIFIED_CELLS,
                  pc, i, j, k, returned, saved, latest, input, model_calls, minted_in >>

\* logic.py 470-472: the stop flag is set at the top of the column loop
ReturnStopped ==
  /\ pc = "col_loop"
  /\ i <= Len(columns_config)
  /\ PROCESS_STOPPED
  /\ pc' = "returned"
  /\ returned' = tables(responses_df, codes_df)
  /\ UNCHANGED << route_vars, unit_vars >>
  /\ UNCHANGED << responses_df, codes_df, updated_codes_df, questions_dict,
                  columns_config, col_counters, PROCESS_STOPPED, skip_first_uncoded,
                  MODIFIED_CELLS, i, j, k, saved, latest, input, model_calls, minted_in >>

\* logic.py 608: every column has been visited
ReturnAtEnd ==
  /\ pc = "col_loop"
  /\ i > Len(columns_config)
  /\ pc' = "returned"
  /\ returned' = tables(responses_df, updated_codes_df)
  /\ UNCHANGED << route_vars, unit_vars >>
  /\ UNCHANGED << responses_df, codes_df, updated_codes_df, questions_dict,
                  columns_config, col_counters, PROCESS_STOPPED, skip_first_uncoded,
                  MODIFIED_CELLS, i, j, k, saved, latest, input, model_calls, minted_in >>

\* logic.py 477-480: no question maps to the column
ColumnUnmapped ==
  /\ pc = "col_loop"
  /\ i <= Len(columns_config)
  /\ ~PROCESS_STOPPED
  /\ relevant_questions = {}
  /\ i' = i + 1
  /\ UNCHANGED << route_vars, unit_vars >>
  /\ UNCHANGED << responses_df, codes_df, updated_codes_df, questions_dict,
                  columns_config, col_counters, PROCESS_STOPPED, skip_first_uncoded,
                  MODIFIED_CELLS, pc, j, k, returned, saved, latest, input, model_calls,
                  minted_in >>

\* logic.py 494-507: a closed column starts; its code column is normalised
BeginClosed ==
  /\ pc = "col_loop"
  /\ i <= Len(columns_config)
  /\ ~PROCESS_STOPPED
  /\ relevant_questions # {}
  /\ ~is_other(col)
  /\ responses_df' = normalize_column(responses_df, code_column(col))
  /\ pc' = "closed_loop"
  /\ j' = 1
  /\ UNCHANGED << route_vars, unit_vars >>
  /\ UNCHANGED << codes_df, updated_codes_df, questions_dict, columns_config,
                  col_counters, PROCESS_STOPPED, skip_first_uncoded, MODIFIED_CELLS,
                  i, k, returned, saved, latest, input, model_calls, minted_in >>

\* logic.py 484-488, 626-642: an open-ended column starts; process_other_columns
\* polls the stop flag once and normalises the base column
BeginOther ==
  /\ pc = "col_loop"
  /\ i <= Len(columns_config)
  /\ ~PROCESS_STOPPED
  /\ relevant_questions # {}
  /\ is_other(col)
  /\ responses_df' = normalize_column(responses_df, col_without_other(col))
  /\ pc' = "other_loop"
  /\ j' = 1
  /\ k' = 1
  /\ UNCHANGED << route_vars, unit_vars >>
  /\ UNCHANGED << codes_df, updated_codes_df, questions_dict, columns_config,
                  col_counters, PROCESS_STOPPED, skip_first_uncoded, MODIFIED_CELLS,
                  i, returned, saved, latest, input, model_calls, minted_in >>

in_closed_loop == pc = "closed_loop" /\ j <= Len(unique_responses(responses_df, col))

response == unique_responses(responses_df, col)[j]

\* a checkpoint callback that writes the working files only
save_intermediate_working_only(r_df, c_df) ==
  [working |-> tables(r_df, c_df), latest |-> latest]

\* save_intermediate of process_survey_task (routes.py 396-413): what the
\* working files and the latest published files hold once it has run
save_intermediate(r_df, c_df) ==
  [working |-> tables(r_df, c_df), latest |-> tables(r_df, c_df)]

\* if save_callback: save_callback(responses_df, updated_codes_df)
\* (logic.py 490-492, 603-606)
save_callback ==
  LET written == save_intermediate(responses_df, updated_codes_df)
  IN saved' = written.working /\ latest' = written.latest

\* logic.py 509-510 and 603-606: the stop flag is set at the top of the value
\* loop; the loop breaks and the column's checkpoint is saved
ClosedBreak ==
  /\ in_closed_loop
  /\ PROCESS_STOPPED
  /\ save_callback
  /\ pc' = "col_loop"
  /\ i' = i + 1
  /\ UNCHANGED << route_vars, unit_vars >>
  /\ UNCHANGED << responses_df, codes_df, updated_codes_df, questions_dict,
                  columns_config, col_counters, PROCESS_STOPPED, skip_first_uncoded,
                  MODIFIED_CELLS, j, k, returned, input, model_calls, minted_in >>

\* logic.py 515-529: the value counts as already coded and is passed over
ClosedSkipCoded ==
  /\ in_closed_loop
  /\ ~PROCESS_STOPPED
  /\ has_code(responses_df, col, code_column(col), response)
  /\ j' = j + 1
  /\ UNCHANGED << route_vars, unit_vars >>
  /\ UNCHANGED << responses_df, codes_df, updated_codes_df, questions_dict,
                  columns_config, col_counters, PROCESS_STOPPED, skip_first_uncoded,
                  MODIFIED_CELLS, pc, i, k, returned, saved, latest, input, model_calls,
                  minted_in >>

\* the code written for the value the skip directive passes over (logic.py 535)
skip_code == S99

\* a skip step that leaves the directive set
ClosedSkipCrashKeepsDirective ==
  /\ in_closed_loop
  /\ ~PROCESS_STOPPED
  /\ ~has_code(responses_df, col, code_column(col), response)
  /\ skip_first_uncoded
  /\ responses_df' = write_codes(responses_df, mask(responses_df, col, response),
                                 code_column(col), skip_code)
  /\ MODIFIED_CELLS' = MODIFIED_CELLS \cup
       {<<r, code_column(col)>> : r \in mask(responses_df, col, response)}
  /\ j' = j + 1
  /\ UNCHANGED << route_vars, unit_vars >>
  /\ UNCHANGED << codes_df, updated_codes_df, questions_dict, columns_config,
                  col_counters, PROCESS_STOPPED, skip_first_uncoded, pc, i, k,
                  returned, saved, latest, input, model_calls, minted_in >>

\* logic.py 531-549: the skip directive consumes the uncoded value
ClosedSkipCrash ==
  /\ in_closed_loop
  /\ ~PROCESS_STOPPED
  /\ ~has_code(responses_df, col, code_column(col), response)
  /\ skip_first_uncoded
  /\ responses_df' = write_codes(responses_df, mask(responses_df, col, response),
                                 code_column(col), skip_code)
  /\ MODIFIED_CELLS' = MODIFIED_CELLS \cup
       {<<r, code_column(col)>> : r \in mask(responses_df, col, response)}
  /\ skip_first_uncoded' = FALSE
  /\ j' = j + 1
  /\ UNCHANGED << route_vars, unit_vars >>
  /\ UNCHANGED << codes_df, updated_codes_df, questions_dict, columns_config,
                  col_counters, PROCESS_STOPPED, pc, i, k, returned, saved, latest, input,
                  model_calls, minted_in >>

\* max_labels of the closed loop (logic.py 562, 580-581)
closed_max_labels(cfg) == IF ~cfg.multiLabel THEN 1 ELSE cfg.maxLabels

\* logic.py 551-601: the value is classified against the first relevant
\* question and the result is written to the rows selected by the mask
ClosedClassify ==
  /\ in_closed_loop
  /\ ~PROCESS_STOPPED
  /\ ~has_code(responses_df, col, code_column(col), response)
  /\ ~skip_first_uncoded
  /\ \E question \in relevant_questions \cap DOMAIN questions_dict,
        reply \in ClassReplies, p \in StopPolls :
       \E o \in process_response(question, response, questions_dict[question],
                                 col_counters[col], config.maxNewLabels,
                                 updated_codes_df, questions_dict,
                                 closed_max_labels(config),
                                 p.atClassify, p.atMint, reply, MintReplies) :
          /\ responses_df' = write_codes(responses_df,
                                         mask(responses_df, col, response),
                                         code_column(col), o.final_codes)
          /\ updated_codes_df' = o.codes_df
          /\ questions_dict' = o.qdict
          /\ col_counters' = [col_counters EXCEPT ![col] = o.count]
          /\ minted_in' = [minted_in EXCEPT ![col] = @ + (o.count - col_counters[col])]
          /\ model_calls' = model_calls + o.calls
          /\ PROCESS_STOPPED' = p.atMint
  /\ MODIFIED_CELLS' = MODIFIED_CELLS \cup
       {<<r, code_column(col)>> : r \in mask(responses_df, col, response)}
  /\ j' = j + 1
  /\ UNCHANGED << route_vars, unit_vars >>
  /\ UNCHANGED << codes_df, columns_config, skip_first_uncoded, pc, i, k, returned,
                  saved, latest, input >>

\* logic.py 603-606: the column's values are exhausted; its checkpoint is saved
ClosedDone ==
  /\ pc = "closed_loop"
  /\ j > Len(unique_responses(responses_df, col))
  /\ save_callback
  /\ pc' = "col_loop"
  /\ i' = i + 1
  /\ UNCHANGED << route_vars, unit_vars >>
  /\ UNCHANGED << responses_df, codes_df, updated_codes_df, questions_dict,
                  columns_config, col_counters, PROCESS_STOPPED, skip_first_uncoded,
                  MODIFIED_CELLS, j, k, returned, input, model_calls, minted_in >>

in_other_loop == pc = "other_loop" /\ j <= Len(responses_df)

items == question_order(codes_df, questions_dict)

\* advance the (row, question) cursor of process_other_columns
other_advance ==
  IF k < Len(items) THEN j' = j /\ k' = k + 1 ELSE j' = j + 1 /\ k' = 1

\* logic.py 643-645: an empty open-ended cell is passed over
OtherSkipNaN ==
  /\ in_other_loop
  /\ responses_df[j][col] = NaN
  /\ j' = j + 1
  /\ k' = 1
  /\ UNCHANGED << route_vars, unit_vars >>
  /\ UNCHANGED << responses_df, codes_df, updated_codes_df, questions_dict,
                  columns_config, col_counters, PROCESS_STOPPED, skip_first_uncoded,
                  MODIFIED_CELLS, pc, i, returned, saved, latest, input, model_calls,
                  minted_in >>

\* logic.py 647-705: the cell is classified against one question of
\* questions_dict and merged into the base column
OtherClassify ==
  /\ in_other_loop
  /\ responses_df[j][col] # NaN
  /\ questions_dict[items[k]] # {}
  /\ \E reply \in ClassReplies, p \in StopPolls :
       \E o \in process_response(items[k], responses_df[j][col],
                                 questions_dict[items[k]], 0, OtherMaxNewLabels,
                                 updated_codes_df, questions_dict, DefaultMaxLabels,
                                 p.atClassify, p.atMint, reply, MintReplies) :
          /\ responses_df' =
               write_codes(responses_df, {j}, col_without_other(col),
                           merge_codes(responses_df[j][col_without_other(col)],
                                       o.final_codes))
          /\ updated_codes_df' = o.codes_df
          /\ questions_dict' = o.qdict
          /\ minted_in' = [minted_in EXCEPT ![col] = @ + o.count]
          /\ model_calls' = model_calls + o.calls
          /\ PROCESS_STOPPED' = p.atMint
  /\ MODIFIED_CELLS' = MODIFIED_CELLS \cup {<<j, col_without_other(col)>>}
  /\ other_advance
  /\ UNCHANGED << route_vars, unit_vars >>
  /\ UNCHANGED << codes_df, columns_config, col_counters, skip_first_uncoded, pc, i,
                  returned, saved, latest, input >>

\* logic.py 710, 490-492, 603-606: process_other_columns returns and the
\* column's checkpoint is saved
OtherDone ==
  /\ pc = "other_loop"
  /\ j > Len(responses_df)
  /\ save_callback
  /\ pc' = "col_loop"
  /\ i' = i + 1
  /\ UNCHANGED << route_vars, unit_vars >>
  /\ UNCHANGED << responses_df, codes_df, updated_codes_df, questions_dict,
                  columns_config, col_counters, PROCESS_STOPPED, skip_first_uncoded,
                  MODIFIED_CELLS, j, k, returned, input, model_calls, minted_in >>

Next ==
  \/ Stop
  \/ ReturnStopped
  \/ ReturnAtEnd
  \/ ColumnUnmapped
  \/ BeginClosed
  \/ BeginOther
  \/ ClosedBreak
  \/ ClosedSkipCoded
  \/ ClosedSkipCrash
  \/ ClosedClassify
  \/ ClosedDone
  \/ OtherSkipNaN
  \/ OtherClassify
  \/ OtherDone

Spec == Init /\ [][Next]_vars

\* ------------------------------------------------------------ request routes
\* the pipeline is not running: the state of logic.py between runs
PipelineIdle ==
  /\ responses_df = <<>>
  /\ codes_df = <<>>
  /\ updated_codes_df = <<>>
  /\ questions_dict = <<>>
  /\ columns_config = <<>>
  /\ col_counters = <<>>
  /\ PROCESS_STOPPED = FALSE
  /\ skip_first_uncoded = FALSE
  /\ MODIFIED_CELLS = {}
  /\ pc = "idle"
  /\ i = 0
  /\ j = 0
  /\ k = 0
  /\ returned = NoTables
  /\ saved = NoTables
  /\ latest = NoTables
  /\ input = NoTables
  /\ model_calls = 0
  /\ minted_in = <<>>

pipeline_vars ==
  << responses_df, codes_df, updated_codes_df, questions_dict, columns_config,
     col_counters, skip_first_uncoded, MODIFIED_CELLS, pc, i, j, k, returned,
     saved, latest, input, model_calls, minted_in >>

\* the working checkpoint files a session directory can hold when a request
\* arrives: each of responses_working.xlsx and codes_working.xlsx is there or not
WorkingFiles == [Sessions -> [responses : BOOLEAN, codes : BOOLEAN]]

InitRoutes == PipelineIdle /\ NoRequests /\ UnitIdle /\ files \in WorkingFiles

\* background_tasks.add_task(process_survey_task, session_id, config, ...)
add_task(s, cfg, is_resume) ==
  Append(tasks, [session |-> s, config |-> cfg, is_resume |-> is_resume,
                 pc |-> "queued", skip_crash_row |-> FALSE, skips_applied |-> 0,
                 responses_source |-> "none", codes_source |-> "none"])

\* POST /process (routes.py 516-586): a fresh config object is stored in the
\* session and handed to a new background task
start_processing ==
  \E s \in Sessions, skip \in BOOLEAN :
     /\ session_status[s] # "processing"
     /\ Len(tasks) < MaxTasks
     /\ LET cfg == Len(tasks) + 1 IN
          /\ config_skip' = [config_skip EXCEPT ![cfg] = skip]
          /\ session_config' = [session_config EXCEPT ![s] = cfg]
          /\ tasks' = add_task(s, cfg, FALSE)
     /\ UNCHANGED << session_status, PROCESS_STOPPED, pipeline_vars, files, unit_vars >>

\* POST /process/resume (routes.py 463-508): the session's config object is
\* updated in place with the request's skip flag and handed to a new task
resume_processing ==
  \E s \in Sessions, skip \in BOOLEAN :
     /\ session_status[s] # "processing"
     /\ session_config[s] # 0
     /\ Len(tasks) < MaxTasks
     /\ config_skip' = [config_skip EXCEPT ![session_config[s]] = skip]
     /\ tasks' = add_task(s, session_config[s], TRUE)
     /\ UNCHANGED << session_status, session_config, PROCESS_STOPPED, pipeline_vars, files, unit_vars >>

\* POST /stop/{session_id} (routes.py 711-763)
stop_processing ==
  \E s \in Sessions :
     /\ session_status[s] = "processing"
     /\ PROCESS_STOPPED' = TRUE
     /\ session_status' = [session_status EXCEPT ![s] = "stopped"]
     /\ UNCHANGED << session_config, config_skip, tasks, pipeline_vars, files, unit_vars >>

\* routes.py 373-378: the working file is read when it exists, else the upload
input_file_upload_only(working_exists) == "upload"

input_file(working_exists) == IF working_exists THEN "working" ELSE "upload"

\* process_survey_task up to its first await (routes.py 349-380)
process_survey_task_begin ==
  \E t \in DOMAIN tasks :
     /\ tasks[t].pc = "queued"
     /\ session_status' = [session_status EXCEPT ![tasks[t].session] = "processing"]
     /\ tasks' = [tasks EXCEPT ![t].pc = "started",
                               ![t].responses_source =
                                  input_file(files[tasks[t].session].responses),
                               ![t].codes_source =
                                  input_file(files[tasks[t].session].codes)]
     /\ UNCHANGED << session_config, config_skip, PROCESS_STOPPED, pipeline_vars, files, unit_vars >>

\* routes.py 382-393: SurveyProcessor(session_id) resets the stop flag
\* (processor.py 26); the files are loaded
process_survey_task_load ==
  \E t \in DOMAIN tasks :
     /\ tasks[t].pc = "started"
     /\ PROCESS_STOPPED' = FALSE
     /\ tasks' = [tasks EXCEPT ![t].pc = "loaded"]
     /\ UNCHANGED << session_status, session_config, config_skip, pipeline_vars, files, unit_vars >>

\* binding of a call of SurveyProcessor.process with n positional arguments
\* (processor.py 61-62): more than it declares raises TypeError
call_process(n) == IF n > process_parameters THEN "TypeError" ELSE "ok"

\* skip_first_uncoded as SurveyProcessor.process hands it to
\* logic.process_responses (processor.py 108-118): not passed, so the default
process_skip_first_uncoded(skip_crash_row) == FALSE

\* routes.py 416-455: the coding phase.  The call of processor.process either
\* raises, which the handler turns into status 'error', or runs the pipeline
\* and the task completes.
process_survey_task_code ==
  \E t \in DOMAIN tasks :
     /\ tasks[t].pc = "loaded"
     /\ LET skip_crash_row == config_skip[tasks[t].config] IN
          IF call_process(process_arguments) = "TypeError"
            THEN /\ session_status' =
                      [session_status EXCEPT ![tasks[t].session] = "error"]
                 /\ tasks' = [tasks EXCEPT ![t].pc = "error",
                                           ![t].skip_crash_row = skip_crash_row]
                 /\ files' = files
            ELSE /\ session_status' =
                      [session_status EXCEPT ![tasks[t].session] = "completed"]
                 /\ tasks' =
                      [tasks EXCEPT
                         ![t].pc = "completed",
                         ![t].skip_crash_row = skip_crash_row,
                         ![t].skips_applied =
                            IF process_skip_first_uncoded(skip_crash_row)
                              THEN 1 ELSE 0]
                 /\ files' = [files EXCEPT ![tasks[t].session] =
                                [responses |-> TRUE, codes |-> TRUE]]
     /\ UNCHANGED << session_config, config_skip, PROCESS_STOPPED, pipeline_vars, unit_vars >>

NextRoutes ==
  \/ start_processing
  \/ resume_processing
  \/ stop_processing
  \/ process_survey_task_begin
  \/ process_survey_task_load
  \/ process_survey_task_code

SpecRoutes == InitRoutes /\ [][NextRoutes]_vars

\* ------------------------------------------------------------ properties
\* the value a written cell holds
cell_value(cell) == responses_df[cell[1]][cell[2]]

without_brackets(s) == SelectSeq(s, LAMBDA c : c \notin {"[", "]"})

\* the codes of a stored value, brackets set aside
cell_codes(s) ==
  LET nb == without_brackets(s) IN IF nb = <<>> THEN <<>> ELSE split(nb, ";")

pairwise_distinct(xs) == \A a, b \in DOMAIN xs : a # b => xs[a] # xs[b]

\* at most one bracket pair, opening at the start of a code and closing the value
bracket_group_ok(s) ==
  LET opens == {n \in DOMAIN s : s[n] = "["}
      closes == {n \in DOMAIN s : s[n] = "]"}
  IN \/ opens = {} /\ closes = {}
     \/ /\ Cardinality(opens) = 1
        /\ closes = {Len(s)}
        /\ \A n \in opens : n = 1 \/ s[n - 1] = ";"

other_column_begun ==
  \E n \in DOMAIN columns_config : n <= i /\ is_other(columns_config[n].name)

\* C1 (as stated): every value written to a code column is a ';'-separated
\* list of pairwise distinct codes, each of exactly two digits, and holds no
\* other character.
CodeValuesTwoDigits ==
  \A cell \in MODIFIED_CELLS :
     LET s == cell_value(cell)
         parts == IF s = <<>> THEN <<>> ELSE split(s, ";")
     IN /\ \A n \in DOMAIN parts : Len(parts[n]) = 2 /\ isdigit(parts[n])
        /\ pairwise_distinct(parts)

\* C1 (amended): every value written to a code column is a ';'-separated list
\* of pairwise distinct codes, each of at least two digits and zero-padded to
\* two; only a value merged by process_other_columns may enclose its trailing
\* codes in one pair of square brackets.
CodeValuesWellFormed ==
  \A cell \in MODIFIED_CELLS :
     LET s == cell_value(cell)
         parts == cell_codes(s)
     IN /\ \A n \in DOMAIN parts :
             /\ isdigit(parts[n])
             /\ Len(parts[n]) >= 2
             /\ Len(parts[n]) > 2 => parts[n][1] # "0"
        /\ pairwise_distinct(parts)
        /\ bracket_group_ok(s)
        /\ s # without_brackets(s) => other_column_begun

\* C1 witness: a merge has written a bracketed group holding a three-digit code
CodeValuesWellFormedWitness ==
  \E cell \in MODIFIED_CELLS :
     cell_value(cell) = <<"[", "0", "2", ";", "7", "7", "7", "]">>

\* C2: a sentinel code never stands in a stored value together with any other
\* code, bracketed or not.
SentinelStandsAlone ==
  \A cell \in MODIFIED_CELLS :
     LET cs == SeqToSet(cell_codes(cell_value(cell)))
     IN cs \cap excluded_codes # {} => Cardinality(cs) = 1

\* a run whose question is single-response: marked '(respuesta unica)' or
\* every column configured without multi-label
single_response_run ==
  \/ codes_df[1].Pregunta.unica
  \/ \A n \in DOMAIN columns_config : closed_max_labels(columns_config[n]) = 1

\* C3: for a single-response question every stored assignment holds at most
\* one code, also after the merge of an open-ended column.
SingleResponseOneCode ==
  single_response_run =>
    \A cell \in MODIFIED_CELLS : Len(cell_codes(cell_value(cell))) <= 1

\* C4: the labels minted while processing a column never exceed the column's
\* maxNewLabels, for closed and open-ended columns.
MintedWithinColumnLimit ==
  \A n \in DOMAIN columns_config :
     minted_in[columns_config[n].name] <= columns_config[n].maxNewLabels

\* every row of the table holds a code in the code column of the question
fully_coded(df) ==
  \A r \in DOMAIN df : df[r]["CP1"] # NaN /\ strip(df[r]["CP1"]) # <<>>

\* C5: a run started on a fully coded checkpoint issues no model call and
\* returns tables identical to the checkpoint.
FullyCodedRunIsIdle ==
  fully_coded(input.responses_df) =>
    /\ model_calls = 0
    /\ pc = "returned" =>
         /\ returned.responses_df = input.responses_df
         /\ returned.codes_df = input.codes_df

\* C6: a closed-column value is passed over as already coded only if the code
\* column is non-empty in every row holding that text.
SkipOnlyIfEveryRowCoded ==
  [][ClosedSkipCoded =>
       \A r \in mask(responses_df, col, response) :
          /\ responses_df[r][code_column(col)] # NaN
          /\ strip(responses_df[r][code_column(col)]) # <<>>]_vars

\* the step passes over or classifies the value at the closed-loop cursor
closed_value_step == in_closed_loop /\ ~PROCESS_STOPPED /\ j' = j + 1

uncoded_value == ~has_code(responses_df, col, code_column(col), response)

\* the step consumes the skip directive, writing code to the value's rows
directive_consumed(code) ==
  (skip_first_uncoded /\ ~skip_first_uncoded') =>
     /\ closed_value_step
     /\ uncoded_value
     /\ model_calls' = model_calls
     /\ \A r \in DOMAIN responses_df :
          IF r \in mask(responses_df, col, response)
            THEN responses_df'[r] =
                   [responses_df[r] EXCEPT ![code_column(col)] = code]
            ELSE responses_df'[r] = responses_df[r]

NoModelCallOnceStopped ==
  /\ [][PROCESS_STOPPED => model_calls' = model_calls]_vars
  /\ [][(PROCESS_STOPPED /\ pc = "closed_loop") => pc' = "col_loop"]_vars
  /\ [][(PROCESS_STOPPED /\ pc = "col_loop") =>
          /\ pc' = "returned"
          /\ returned'.responses_df = responses_df
          /\ returned'.codes_df \in {codes_df, updated_codes_df}]_vars

\* C9 witness: the flag was set inside an open-ended column, whose remaining
\* cells were gone through, and the run returned
NoModelCallOnceStoppedWitness ==
  /\ PROCESS_STOPPED
  /\ pc = "returned"
  /\ model_calls >= 1
  /\ i = 2
  /\ is_other(columns_config[1].name)
  /\ Cardinality(MODIFIED_CELLS) = NumRows

\* C10: the tables returned by a stopped run hold every assignment written
\* and every label minted before the stop.
StoppedRunReturnsMinted ==
  (pc = "returned" /\ PROCESS_STOPPED) =>
    /\ returned.responses_df = responses_df
    /\ returned.codes_df = updated_codes_df

\* C8: a resume request carrying the skip directive is carried by
\* process_survey_task and SurveyProcessor.process into process_responses and
\* applied exactly once there; a resume without it skips nothing.
ResumeSkipReachesPipeline ==
  \A t \in DOMAIN tasks :
     (tasks[t].is_resume /\ tasks[t].pc \in {"error", "completed"}) =>
        /\ tasks[t].pc = "completed"
        /\ tasks[t].skips_applied = (IF tasks[t].skip_crash_row THEN 1 ELSE 0)

\* a step that leaves a column the run was processing
column_finished == pc \in {"closed_loop", "other_loop"} /\ pc' = "col_loop"

\* C11: every step that finishes a column writes the current response table
\* and codebook to the working snapshot and the same content to the latest
\* published snapshot; between columns both snapshots hold the current tables.
CheckpointAfterEachColumn ==
  [][/\ column_finished =>
          /\ saved' = tables(responses_df', updated_codes_df')
          /\ latest' = saved'
          /\ responses_df' = responses_df /\ updated_codes_df' = updated_codes_df
     /\ (pc = "col_loop" /\ saved # NoTables) =>
          /\ saved = tables(responses_df, updated_codes_df)
          /\ latest = saved]_vars

CheckpointAfterEachColumnWitness ==
  /\ pc = "col_loop"
  /\ i = 2
  /\ MODIFIED_CELLS # {}
  /\ updated_codes_df # codes_df
  /\ saved = tables(responses_df, updated_codes_df)
  /\ latest = saved

\* the step of task t in which process_survey_task chooses its input files
chooses_input(t) == tasks[t].pc = "queued" /\ tasks'[t].pc = "started"

\* C12: when a coding run, started or resumed, begins while the session's
\* working checkpoint exists, the response table and the codebook it loads
\* are the checkpoint's; it loads the original upload when no checkpoint exists.
RunStartsFromCheckpoint ==
  [][\A t \in DOMAIN tasks :
       chooses_input(t) =>
         LET on_disk == files[tasks[t].session] IN
           /\ (on_disk.responses /\ on_disk.codes) =>
                 /\ tasks'[t].responses_source = "working"
                 /\ tasks'[t].codes_source = "working"
           /\ (~on_disk.responses /\ ~on_disk.codes) =>
                 /\ tasks'[t].responses_source = "upload"
                 /\ tasks'[t].codes_source = "upload"]_vars

RunStartsFromCheckpointWitness ==
  \E t \in DOMAIN tasks :
     /\ tasks[t].is_resume /\ tasks[t].pc = "loaded"
     /\ files[tasks[t].session].responses /\ files[tasks[t].session].codes
     /\ tasks[t].responses_source = "working" /\ tasks[t].codes_source = "working"

\* ------------------------------------------- process_response, call by call
\* A codebook in which question Q1 has a row of its own and shares two rows
\* with Q2 under the name 'Q1 / Q2'.
SharedCodebook ==
  << [IdCampo |-> <<"CP1">>, Cod |-> <<"1">>, Label |-> <<"A", "b">>,
      Pregunta |-> [text |-> <<"Q1">>, unica |-> FALSE]],
     [IdCampo |-> <<"CP1">>, Cod |-> <<"2">>, Label |-> <<"C", "d">>,
      Pregunta |-> [text |-> <<"Q1", "Q2">>, unica |-> FALSE]],
     [IdCampo |-> <<"CP1">>, Cod |-> <<"5">>, Label |-> <<"G", "h">>,
      Pregunta |-> [text |-> <<"Q1", "Q2">>, unica |-> FALSE]] >>

UnitCodebooks == {Codebook(FALSE), SharedCodebook}

\* responses handed to process_response
UnitResponses == { <<"y">>, <<"z", "z">>, <<"G", "h">> }

\* provider answers to the classification prompt; None: every attempt failed
UnitClassReplies == { NEW_LABEL_NEEDED, <<>>, <<"x">>, <<"2">>, None }

\* provider answers to the minting prompt
UnitMintReplies == { <<"E", "f">>, <<"a", "b", "!">>, <<"(", "E", ")">>, None }

\* the arguments process_responses builds for process_response on a codebook
\* (logic.py 551-587): the question is a key of questions_dict, the counter
\* is the column's and never above the column's limit
unit_start(cb, question, max, count, max_labels) ==
  [codes_df |-> cb, qdict |-> group_labels_codes(cb, <<"P1">>),
   question |-> question, count |-> count, max |-> max, max_labels |-> max_labels,
   n |-> 0, last |-> <<>>, minted |-> count]

InitUnit ==
  /\ PipelineIdle /\ NoRequests /\ files = NoFiles /\ gw = <<>>
  /\ merge = <<>> /\ review = <<>>
  /\ \E cb \in UnitCodebooks, max \in 0..MaxNewLabelsBound, max_labels \in {1, DefaultMaxLabels} :
       \E question \in DOMAIN group_labels_codes(cb, <<"P1">>), count \in 0..max :
          unit = unit_start(cb, question, max, count, max_labels)

\* one call of process_response from the value loop (logic.py 583-589)
call_process_response ==
  /\ unit # <<>>
  /\ unit.n < MaxUnitCalls
  /\ \E resp \in UnitResponses, reply \in UnitClassReplies,
        mintReply \in UnitMintReplies, p \in StopPolls :
       \E o \in process_response(unit.question, resp, unit.qdict[unit.question],
                                 unit.count, unit.max, unit.codes_df, unit.qdict,
                                 unit.max_labels, p.atClassify, p.atMint, reply,
                                 {mintReply}) :
          /\ unit' = [unit EXCEPT
                        !.codes_df = o.codes_df, !.qdict = o.qdict, !.count = o.count,
                        !.n = @ + 1, !.minted = @ + (o.count - unit.count),
                        !.last = [response |-> resp, reply |-> reply,
                                  mintReply |-> mintReply, atClassify |-> p.atClassify,
                                  atMint |-> p.atMint, codes_df |-> unit.codes_df,
                                  qdict |-> unit.qdict, count |-> unit.count,
                                  final_codes |-> o.final_codes, calls |-> o.calls]]
          /\ PROCESS_STOPPED' = p.atMint
  /\ UNCHANGED << responses_df, codes_df, updated_codes_df, questions_dict,
                  columns_config, col_counters, skip_first_uncoded, MODIFIED_CELLS,
                  pc, i, j, k, returned, saved, latest, input, model_calls,
                  minted_in, route_vars, gw, merge, review >>

\* a resumed run on the checkpoint a run that classified a value left: process builds
\* limit_labels anew (processor.py 85-90), so the column's counter starts at 0
\* (logic.py 568-572), and questions_dict is grouped again from the codebook
unit_resume ==
  /\ unit # <<>>
  /\ unit.last # <<>>
  /\ unit.count > 0
  /\ unit.n < MaxUnitCalls
  /\ unit' = [unit EXCEPT !.count = 0, !.last = <<>>,
                          !.qdict = group_labels_codes(unit.codes_df, <<"P1">>)]
  /\ UNCHANGED << responses_df, codes_df, updated_codes_df, questions_dict,
                  columns_config, col_counters, PROCESS_STOPPED, skip_first_uncoded,
                  MODIFIED_CELLS, pc, i, j, k, returned, saved, latest, input,
                  model_calls, minted_in, route_vars, gw, merge, review >>

NextUnit ==
  \/ call_process_response
  \/ unit_resume

SpecUnit == InitUnit /\ [][NextUnit]_vars

\* ------------------------------------------------ properties of one call
\* a process_response call has been made
called == unit # <<>> /\ unit.last # <<>>

\* the call left the codebook and the column's counter as they were
call_changed_nothing ==
  unit.codes_df = unit.last.codes_df /\ unit.count = unit.last.count

\* C13: when the gateway returns None for the classification request,
\* process_response returns exactly '77' and leaves the codebook and the
\* new-label counter unchanged.
ClassificationNoneGives77 ==
  (called /\ (unit.last.reply = None \/ unit.last.atClassify)) =>
     /\ unit.last.final_codes = S77
     /\ call_changed_nothing

ClassificationNoneGives77Witness ==
  /\ called
  /\ unit.last.reply = None /\ ~unit.last.atClassify
  /\ unit.last.count < unit.max
  /\ unit.last.final_codes = S77
  /\ call_changed_nothing

\* the provider answered the classification prompt with a text that is not
\* NEW_LABEL_NEEDED and holds no digit
reply_without_code ==
  /\ ~unit.last.atClassify
  /\ unit.last.reply # None
  /\ strip(unit.last.reply) # NEW_LABEL_NEEDED
  /\ findall_digits(unit.last.reply) = <<>>

\* C14: a classification reply that is not NEW_LABEL_NEEDED and contains no
\* code yields the assignment 77, and no call returns an empty assignment.
ReplyWithoutCodeGives77 ==
  called =>
     /\ reply_without_code => unit.last.final_codes = S77
     /\ unit.last.final_codes # <<>>

\* is_single_response of the call
unit_single_response == unit.question.unica \/ unit.max_labels = 1

\* the classification asked for a new label (logic.py 316)
mint_requested ==
  /\ ~unit.last.atClassify
  /\ unit.last.reply # None
  /\ assign_labels_to_response(unit.last.reply, unit_single_response)
       \in {NEW_LABEL_NEEDED, <<>>}

\* filtered_labels of the call (logic.py 301-305)
unit_filtered_labels ==
  {x[2] : x \in {y \in unit.last.qdict[unit.question] : y[1] \notin excluded_codes}}

\* normalized_labels of create_new_labels (logic.py 196-197)
unit_normalized_labels ==
  {normalize_text(l) : l \in unit_filtered_labels} \cup
  {normalize_text(lower(unit.last.codes_df[n].Label)) :
     n \in question_rows(unit.last.codes_df, unit.question)}

\* the response itself is one of the labels offered to the minter, which then
\* answers without asking the provider (logic.py 199-208)
response_reuses_label ==
  \E l \in unit_filtered_labels :
     normalize_text(l) = normalize_text(lower(strip(unit.last.response)))

\* the provider proposed a label for the call
label_proposed ==
  ~response_reuses_label /\ ~unit.last.atMint /\ unit.last.mintReply # None

budget_exhausted == unit.last.count >= unit.max

mint_gateway_none ==
  ~response_reuses_label /\ (unit.last.atMint \/ unit.last.mintReply = None)

label_with_parenthesis ==
  label_proposed /\ \E n \in DOMAIN unit.last.mintReply : unit.last.mintReply[n] \in {"(", ")"}

label_already_known ==
  label_proposed /\ normalize_text(strip(unit.last.mintReply)) \in unit_normalized_labels

question_absent == question_rows(unit.last.codes_df, unit.question) = {}

\* C15: when minting is asked for and does not succeed (budget exhausted,
\* gateway None, proposed label with a parenthesis, proposed label that
\* normalises to a known label, question without a row in the codebook) the
\* assignment is 77, no row is appended and the counter is unchanged.
FailedMintGives77 ==
  (called /\ mint_requested /\
     (\/ budget_exhausted
      \/ mint_gateway_none
      \/ label_with_parenthesis
      \/ label_already_known
      \/ question_absent)) =>
     /\ unit.last.final_codes = S77
     /\ call_changed_nothing

FailedMintGives77Witness ==
  /\ called /\ mint_requested
  /\ ~budget_exhausted /\ ~question_absent
  /\ label_with_parenthesis
  /\ unit.last.final_codes = S77
  /\ call_changed_nothing

\* ------------------------------------- the completion gateway, step by step
\* max_retries of request_openai and request_ai_wrapper, and of request_gemini
default_max_retries == 5
gemini_max_retries == 3

\* what one provider attempt gives: a reply with text, a reply whose text is
\* empty, a reply whose text is absent (None), or an exception
Outcomes == {"text", "empty", "absent", "error"}

\* for attempt in range(max_retries)
in_range(attempt, max_retries) == attempt < max_retries

\* if attempt < max_retries - 1: time.sleep(...)
retry_allowed(attempt, max_retries) == attempt < max_retries - 1

\* a call of request_openai (logic.py 63) or of request_ai_wrapper
\* (gemini_logic.py 35) with the default max_retries, with or without a
\* stop_requested_check predicate
gateway_call(kind, has_check) ==
  [kind |-> kind, has_check |-> has_check, max_retries |-> default_max_retries,
   attempt |-> 0, inner |-> 0, pc |-> "poll", result |-> "pending", outcomes |-> <<>>]

InitGateway ==
  /\ PipelineIdle /\ NoRequests /\ files = NoFiles /\ unit = <<>>
  /\ merge = <<>> /\ review = <<>>
  /\ \E kind \in {"openai", "gemini"}, has_check \in BOOLEAN :
       gw = gateway_call(kind, has_check)

gateway_return(value) == gw' = [gw EXCEPT !.pc = "returned", !.result = value]

gateway_unchanged ==
  UNCHANGED << responses_df, codes_df, updated_codes_df, questions_dict,
               columns_config, col_counters, skip_first_uncoded, MODIFIED_CELLS,
               pc, i, j, k, returned, saved, latest, input, model_calls,
               minted_in, route_vars, unit, merge, review >>

\* logic.stop_process while the call is in progress
stop_process_during_call ==
  /\ gw # <<>>
  /\ gw.pc # "returned"
  /\ ~PROCESS_STOPPED
  /\ PROCESS_STOPPED' = TRUE
  /\ UNCHANGED gw
  /\ gateway_unchanged

\* logic.py 72-75 and gemini_logic.py 40-43: the top of the retry loop.  The
\* predicate the pipeline passes returns PROCESS_STOPPED (logic.py 451-453).
gateway_poll ==
  /\ gw # <<>>
  /\ gw.pc = "poll"
  /\ IF ~in_range(gw.attempt, gw.max_retries) THEN gateway_return("None")
     ELSE IF PROCESS_STOPPED THEN gateway_return("None")
     ELSE gw' = [gw EXCEPT !.pc = "attempt", !.inner = 0]
  /\ UNCHANGED PROCESS_STOPPED
  /\ gateway_unchanged

\* logic.py 77-93: the provider is called; whatever reply it gives is returned
request_openai_attempt ==
  /\ gw # <<>>
  /\ gw.kind = "openai"
  /\ gw.pc = "attempt"
  /\ \E outcome \in Outcomes :
       gw' = [gw EXCEPT !.outcomes = Append(@, outcome),
                        !.pc = IF outcome = "error" THEN "except" ELSE "returned",
                        !.result = IF outcome = "error" THEN @ ELSE outcome]
  /\ UNCHANGED PROCESS_STOPPED
  /\ gateway_unchanged

\* logic.py 94-105: the exception handler of request_openai
request_openai_except ==
  /\ gw # <<>>
  /\ gw.pc = "except"
  /\ IF gw.has_check /\ PROCESS_STOPPED THEN gateway_return("None")
     ELSE IF retry_allowed(gw.attempt, gw.max_retries)
       THEN gw' = [gw EXCEPT !.pc = "sleep"]
     ELSE gateway_return("None")
  /\ UNCHANGED PROCESS_STOPPED
  /\ gateway_unchanged

\* a retry that does not count the attempt it follows
gateway_sleep_done_uncounted ==
  /\ gw # <<>>
  /\ gw.pc = "sleep"
  /\ gw' = [gw EXCEPT !.pc = "poll"]
  /\ UNCHANGED PROCESS_STOPPED
  /\ gateway_unchanged

\* time.sleep(10) returns and the loop goes on (logic.py 99-100)
gateway_sleep_done ==
  /\ gw # <<>>
  /\ gw.pc = "sleep"
  /\ gw' = [gw EXCEPT !.pc = "poll", !.attempt = @ + 1]
  /\ UNCHANGED PROCESS_STOPPED
  /\ gateway_unchanged

\* gemini_logic.py 45-48 with gemini_client.py 55-96: request_ai_wrapper calls
\* request_gemini and returns what it returns; request_gemini returns the text,
\* None for a reply without text, and retries on an exception
request_gemini_attempt ==
  /\ gw # <<>>
  /\ gw.kind = "gemini"
  /\ gw.pc = "attempt"
  /\ \E outcome \in Outcomes :
       gw' = [gw EXCEPT
                !.outcomes = Append(@, outcome),
                !.pc = IF outcome = "error" /\ retry_allowed(gw.inner, gemini_max_retries)
                         THEN "inner_sleep" ELSE "returned",
                !.result = IF outcome = "text" THEN "text"
                           ELSE IF outcome = "error" /\
                                   retry_allowed(gw.inner, gemini_max_retries)
                             THEN @ ELSE "None"]
  /\ UNCHANGED PROCESS_STOPPED
  /\ gateway_unchanged

\* gemini_client.py 89-92: the backoff sleep of request_gemini returns
request_gemini_sleep_done ==
  /\ gw # <<>>
  /\ gw.pc = "inner_sleep"
  /\ IF in_range(gw.inner + 1, gemini_max_retries)
       THEN gw' = [gw EXCEPT !.pc = "attempt", !.inner = @ + 1]
       ELSE gateway_return("None")
  /\ UNCHANGED PROCESS_STOPPED
  /\ gateway_unchanged

gateway_step ==
  \/ gateway_poll
  \/ request_openai_attempt
  \/ request_openai_except
  \/ gateway_sleep_done
  \/ request_gemini_attempt
  \/ request_gemini_sleep_done

NextGateway ==
  \/ stop_process_during_call
  \/ gateway_poll
  \/ request_openai_attempt
  \/ request_openai_except
  \/ gateway_sleep_done
  \/ request_gemini_attempt
  \/ request_gemini_sleep_done

SpecGateway == InitGateway /\ [][NextGateway]_vars

\* the thread that runs the call keeps running: no step of it blocks for ever
SpecGatewayFair == InitGateway /\ [][NextGateway]_vars /\ WF_vars(gateway_step)

\* ------------------------------------------- properties of a gateway call
gateway_returned == gw # <<>> /\ gw.pc = "returned"

\* some provider attempt of the call gave a reply with empty or absent text
empty_attempt == \E n \in DOMAIN gw.outcomes : gw.outcomes[n] \in {"empty", "absent"}

\* C16: an attempt whose reply has empty or absent text is a failed attempt:
\* the call does not return it as a reply, and unless the call is cancelled
\* it ends with a text reply or after all max_retries attempts.
EmptyReplyIsFailedAttempt ==
  gateway_returned =>
     /\ gw.result \notin {"empty", "absent"}
     /\ (empty_attempt /\ ~PROCESS_STOPPED) =>
          (gw.result = "text" \/ Len(gw.outcomes) = gw.max_retries)

\* a step that issues a provider attempt, and a step that starts a retry sleep
attempt_issued == gw.pc # "attempt" /\ gw'.pc = "attempt"
sleep_started == gw.pc \notin {"sleep", "inner_sleep"} /\ gw'.pc \in {"sleep", "inner_sleep"}

\* C17: the stop flag is evaluated before every attempt and before every
\* retry sleep: with the flag set the call returns None at the top of the
\* loop, and no attempt is issued and no sleep is started while it is set,
\* whether or not the caller passed a cancellation predicate.
StopCheckedBeforeAttemptAndSleep ==
  [][(gw # <<>> /\ PROCESS_STOPPED) =>
       /\ gw.pc = "poll" => (gw'.pc = "returned" /\ gw'.result = "None")
       /\ ~attempt_issued
       /\ ~sleep_started]_vars

\* C18: a gateway call makes at most max_retries provider attempts and
\* terminates, returning a reply or None, whatever the attempts give and
\* whenever the stop flag is set.
GatewayCallTerminates ==
  /\ [](Len(gw.outcomes) <= gw.max_retries)
  /\ [](gateway_returned => gw.result \in {"text", "empty", "absent", "None"})
  /\ <>gateway_returned

GatewayCallTerminatesWitness ==
  /\ gateway_returned
  /\ gw.kind = "openai"
  /\ Len(gw.outcomes) = gw.max_retries
  /\ \A n \in DOMAIN gw.outcomes : gw.outcomes[n] = "error"
  /\ gw.result = "None"

\* the call appended a row to the codebook
label_minted == Len(unit.codes_df) = Len(unit.last.codes_df) + 1

minted_code == unit.codes_df[Len(unit.codes_df)].Cod

\* the numeric codes the question had before the call: those of the labels
\* offered for it (questions_dict) and those of its codebook rows
codes_of_question ==
  {int(c) : c \in {x[1] : x \in {y \in unit.last.qdict[unit.question] : isdigit(y[1])}}}
  \cup {int(unit.last.codes_df[n].Cod) :
          n \in {m \in question_rows(unit.last.codes_df, unit.question) :
                   isdigit(unit.last.codes_df[m].Cod)}}

\* C19: a minted code is the largest non-sentinel code of the question plus
\* one, moved past the sentinels; it is never a sentinel and never a code the
\* question already uses.
MintedCodeIsFresh ==
  (called /\ label_minted) =>
     /\ minted_code = fmt02(skip_reserved(SetMax(codes_of_question \ reserved_ints) + 1))
     /\ int(minted_code) \notin reserved_ints
     /\ int(minted_code) \notin codes_of_question

\* the response equals, after normalisation, a label of the question
response_is_known_label ==
  normalize_text(lower(strip(unit.last.response))) \in unit_normalized_labels

\* the codes of the labels of the question the response equals
codes_of_matching_labels ==
  {fmt02(int(x[1])) :
     x \in {y \in unit.last.qdict[unit.question] :
              /\ isdigit(y[1])
              /\ normalize_text(y[2]) = normalize_text(lower(strip(unit.last.response)))}}

\* C20: when minting is asked for a response that equals, after
\* normalisation, a label the question already has, the call resolves to that
\* label's code without a model call for the label, without a new row and
\* without counting a new label.
KnownLabelIsReused ==
  (called /\ mint_requested /\ ~budget_exhausted /\ response_is_known_label) =>
     /\ unit.last.final_codes \in codes_of_matching_labels
     /\ unit.last.calls = 1
     /\ call_changed_nothing

\* ------------------------------- one base cell through the open-ended merges
\* base cells as an upload or an earlier checkpoint holds them
MergeCells ==
  { NaN, <<"7", "7">>, <<"1", ";", "7", "7">>, <<"1">>, <<"0", "1", ";", "5">> }

\* what process_response returns for the open-ended cell: ';'-joined
\* two-digit codes, or nothing
AssignedCodes ==
  { <<>>, <<"0", "2">>, <<"0", "3">>, <<"7", "7">>,
    <<"0", "2", ";", "0", "3">>, <<"0", "3", ";", "7", "7">> }

\* the base cell of one row whose open-ended cell is not empty, and the
\* number of questions of questions_dict it is classified against
InitMerge ==
  /\ PipelineIdle /\ NoRequests /\ files = NoFiles
  /\ unit = <<>> /\ gw = <<>> /\ review = <<>>
  /\ \E cell \in MergeCells, questions \in 1..MaxQuestions :
       merge = [cell |-> cell, questions |-> questions, pc |-> "idle", q |-> 0,
                run |-> 0, last |-> <<>>]

merge_unchanged ==
  UNCHANGED << responses_df, codes_df, updated_codes_df, questions_dict,
               columns_config, col_counters, PROCESS_STOPPED, skip_first_uncoded,
               MODIFIED_CELLS, pc, i, j, k, returned, saved, latest, input,
               model_calls, minted_in, route_vars, unit, gw, review >>

\* logic.py 629-637: a run reaches the open-ended column and normalises the
\* base column
other_column_begin ==
  /\ merge # <<>>
  /\ merge.pc = "idle"
  /\ merge.run < MaxRuns
  /\ merge' = [merge EXCEPT !.cell = normalize_cell(merge.cell), !.pc = "merging",
                            !.q = 1, !.run = @ + 1,
                            !.last = [step |-> "normalize", before |-> merge.cell,
                                      assigned |-> <<>>]]
  /\ merge_unchanged

\* logic.py 647-697: the cell is classified against the next question and the
\* result is merged into the base cell
other_cell_merge ==
  /\ merge # <<>>
  /\ merge.pc = "merging"
  /\ merge.q <= merge.questions
  /\ \E assigned_codes \in AssignedCodes :
       merge' = [merge EXCEPT !.cell = merge_codes(merge.cell, assigned_codes),
                              !.q = @ + 1,
                              !.last = [step |-> "merge", before |-> merge.cell,
                                        assigned |-> assigned_codes]]
  /\ merge_unchanged

\* the questions are exhausted for the cell
other_cell_done ==
  /\ merge # <<>>
  /\ merge.pc = "merging"
  /\ merge.q > merge.questions
  /\ merge' = [merge EXCEPT !.pc = "idle"]
  /\ merge_unchanged

NextMerge ==
  \/ other_column_begin
  \/ other_cell_merge
  \/ other_cell_done

SpecMerge == InitMerge /\ [][NextMerge]_vars

\* ------------------------------------------ properties of the merge rule
\* the last step merged a classification into the base cell
merged == merge # <<>> /\ merge.last # <<>> /\ merge.last.step = "merge"

\* current_codes_set and new_codes_set of that merge (logic.py 669-675)
merge_current == clean_code_set(strip(merge.last.before))
merge_new == clean_code_set(merge.last.assigned)

\* C21: when the cell's current code set is exactly {77} and the new
\* classification yields non-sentinel codes, the stored result is those codes
\* without brackets.
Lone77ReplacedUnbracketed ==
  (merged /\ merge_current = {S77} /\ merge_new # {} /\
     merge_new \cap other_excluded_codes = {}) =>
     merge.cell = join(sorted(merge_new), ";")

codes_shown(cell) ==
  LET found == findall_digits(IF cell = NaN THEN <<>> ELSE cell)
  IN {fmt02(int(found[n])) : n \in DOMAIN found}

\* C27: processing an open-ended cell never removes a non-sentinel code the
\* base cell held, plain or bracketed, neither while the cell is merged
\* against the questions nor when the column is processed again in a later run.
MergeKeepsNonSentinelCodes ==
  [][merge # <<>> =>
       (codes_shown(merge.cell) \ other_excluded_codes) \subseteq codes_shown(merge'.cell)]_vars

\* ------------------------------------------------------------ review run
\* str.replace(old, '') for a one-character old
remove_char(s, c) == SelectSeq(s, LAMBDA x : x # c)

\* list(dict.fromkeys(xs)): first occurrences, in order
RECURSIVE unique_in_order(_)
unique_in_order(xs) ==
  IF xs = <<>> THEN <<>>
  ELSE LET front == unique_in_order(SubSeq(xs, 1, Len(xs) - 1))
       IN IF xs[Len(xs)] \in SeqToSet(front) THEN front ELSE Append(front, xs[Len(xs)])

\* priority_codes of clean_codes
priority_codes == {<<"9", "9">>, <<"8", "8">>, S77, <<"6", "6">>}

\* ';'.join('{:02d}'.format(int(c.strip())) for c in codes if c.strip().isdigit())
format_codes(codes) ==
  LET kept == SelectSeq(codes, LAMBDA c : isdigit(strip(c)))
  IN join([n \in DOMAIN kept |-> fmt02(int(strip(kept[n])))], ";")

\* reviewer.clean_codes on str(cell) (reviewer.py 24-34, gemini_reviewer.py 16-26)
clean_codes(codes) ==
  LET text == remove_char(remove_char(remove_char(codes, "["), "]"), "'")
      unique_codes == unique_in_order(split(text, ";"))
      filtered_codes ==
        SelectSeq(unique_codes,
                  LAMBDA c : c \notin priority_codes \/ Len(unique_codes) = 1)
  IN format_codes(filtered_codes)

\* a failed provider call
Error == <<"Error">>

\* reviewer.verify_codes_with_openai from the provider's reply on
\* (reviewer.py 70-85); an exception, or a reply without content on which
\* .strip() raises, leaves the function by an exception
verify_codes_with_openai(reply) ==
  IF reply \in {Error, None} THEN Error
  ELSE LET parts == split(strip(reply), ";")
           digits == SelectSeq([n \in DOMAIN parts |-> strip(parts[n])], isdigit)
       IN format_codes(unique_in_order(digits))

\* gemini_reviewer.verify_codes_with_gemini from request_gemini's result on
\* (gemini_reviewer.py 46-64); request_gemini gives None for a failure and
\* for a reply without text
verify_codes_with_gemini(reply, assigned_codes) ==
  LET fallback == format_codes(split(assigned_codes, ";"))
      corrected_codes == strip(reply)
      parts == split(corrected_codes, ";")
      digits == SelectSeq([n \in DOMAIN parts |-> strip(parts[n])], isdigit)
  IN IF reply \in {Error, None, <<>>} THEN fallback
     ELSE IF digits = <<>> /\ corrected_codes # <<>> /\
             ~isdigit(remove_char(corrected_codes, ";"))
       THEN fallback
     ELSE format_codes(digits)

Alphabet ==
  << "A", "B", "C", "D", "E", "F", "G", "H", "I", "J", "K", "L", "M",
     "N", "O", "P", "Q", "R", "S", "T", "U", "V", "W", "X", "Y", "Z" >>

\* reviewer.col_index_to_letter
RECURSIVE col_index_to_letter(_)
col_index_to_letter(col_index) ==
  IF col_index < 0 THEN <<>>
  ELSE col_index_to_letter((col_index \div 26) - 1) \o <<Alphabet[(col_index % 26) + 1]>>

\* an address that takes the row position for the sheet row
cell_address_unshifted(col_idx, idx) == <<col_index_to_letter(col_idx), idx>>

\* f"{col_index_to_letter(col_idx)}{idx + 2}" (reviewer.py 191-192)
cell_address(col_idx, idx) == <<col_index_to_letter(col_idx), idx + 2>>

\* the code cells a reviewed file may hold, as str(cell)
ReviewCells ==
  { <<"0", "1">>, <<"1">>, <<"1", ";", "0", "1">>, <<"7", "7", ";", "9", "9">>,
    <<"0", "1", ";", "[", "0", "3", "]">>, <<"n", "a", "n">> }

\* the responses of the reviewed column
ReviewResponses == { <<"y">>, NaN }

\* what the provider gives to a verification prompt
ReviewReplies == { <<"0", "1">>, <<"0", "2", ";", "2">>, <<"x">>, <<>>, None, Error }

\* positions of the code column in the sheet
ReviewColumnIndexes == {1, 27}

ReviewRows == [response : ReviewResponses, assigned : ReviewCells]

\* the codebook sheet a review reads: 'Id campo' as written in the sheet
ReviewCodebook ==
  << [IdCampo |-> <<"C", "P", "1">>, Cod |-> <<"1">>, Label |-> <<"A", "b">>,
      Pregunta |-> <<"Q1">>],
     [IdCampo |-> <<"C", "P", "1", "0">>, Cod |-> <<"3">>, Label |-> <<"E", "f">>,
      Pregunta |-> <<"Q10">>],
     [IdCampo |-> <<"C", "P", "2", "-", "C", "P", "1">>, Cod |-> <<"2">>,
      Label |-> <<"C", "d">>, Pregunta |-> <<"Q1">>] >>

\* the reviewed response column and "C" + response_column
review_column == <<"P", "1">>
review_code_column == <<"C">> \o review_column

\* Series.str.contains(code_column) for a name without regex characters
contains(text, sub) ==
  \E n \in 1..(Len(text) - Len(sub) + 1) : SubSeq(text, n, n + Len(sub) - 1) = sub

\* valid_codes_df of SurveyReviewer.run (reviewer.py 149)
valid_codes_df(cb, code_col) == {n \in DOMAIN cb : contains(cb[n].IdCampo, code_col)}

\* the rows process_responses maps to a closed column: col_base is one of
\* the stripped '-'-separated field ids (logic.py 455-468)
pipeline_codes_df(cb, column) ==
  {n \in DOMAIN cb :
     \E m \in DOMAIN split(cb[n].IdCampo, "-") :
        strip(split(cb[n].IdCampo, "-")[m]) = <<"C">> \o column}

\* SurveyReviewer.run after the files are read (reviewer.py 120-136), for one
\* column to check; kind tells the OpenAI reviewer from the Gemini one
InitReview ==
  /\ PipelineIdle /\ NoRequests /\ files = NoFiles
  /\ unit = <<>> /\ gw = <<>> /\ merge = <<>>
  /\ \E kind \in {"openai", "gemini"}, rows \in [1..NumRows -> ReviewRows],
        col_idx \in ReviewColumnIndexes :
       review = [kind |-> kind, original |-> rows, col_idx |-> col_idx,
                 df |-> [r \in 1..NumRows |-> rows[r].assigned],
                 pc |-> "clean", idx |-> 0, corrections_made |-> 0,
                 modified_cells |-> <<>>, review_cache |-> {}, log |-> <<>>,
                 output |-> <<>>, stop_flag |-> FALSE, valid_rows |-> {}]

review_unchanged ==
  UNCHANGED << responses_df, codes_df, updated_codes_df, questions_dict,
               columns_config, col_counters, skip_first_uncoded,
               MODIFIED_CELLS, pc, i, j, k, returned, saved, latest, input,
               model_calls, minted_in, route_vars, unit, gw, merge >>

\* the stop test of the review loops: reviewer.py 139, 171 read the
\* reviewer's own flag, gemini_reviewer.py 122, 152 also logic.PROCESS_STOPPED
review_stopped ==
  IF review.kind = "gemini" THEN review.stop_flag \/ PROCESS_STOPPED
  ELSE review.stop_flag

\* POST /stop while the review runs (routes.py 737-742): logic.stop_process()
review_stop_requested ==
  /\ review # <<>>
  /\ review.pc \in {"clean", "rows"}
  /\ ~PROCESS_STOPPED
  /\ PROCESS_STOPPED' = TRUE
  /\ UNCHANGED review
  /\ review_unchanged

\* reviewer.py 147-168: the column's codebook rows are looked up; without any
\* the column is passed over, else the code column is normalised before the
\* rows are reviewed
review_clean_column ==
  /\ review # <<>>
  /\ review.pc = "clean"
  /\ ~review_stopped
  /\ LET rows == valid_codes_df(ReviewCodebook, review_code_column) IN
       review' =
         IF rows = {}
           THEN [review EXCEPT !.pc = "rows", !.idx = Len(review.df)]
           ELSE [review EXCEPT
                   !.df = [r \in DOMAIN review.df |-> clean_codes(review.df[r])],
                   !.pc = "rows", !.valid_rows = rows]
  /\ UNCHANGED PROCESS_STOPPED
  /\ review_unchanged

review_row == review.idx + 1

\* reviewer.py 178-180: a row without response is passed over
review_skip_row ==
  /\ review # <<>>
  /\ review.pc = "rows"
  /\ review.idx < Len(review.df)
  /\ review.original[review_row].response = NaN
  /\ ~review_stopped
  /\ review' = [review EXCEPT !.idx = @ + 1]
  /\ UNCHANGED PROCESS_STOPPED
  /\ review_unchanged

\* cache_key of gemini_reviewer.py 164; the question text is the column's
cache_key(r) == <<strip(review.original[r].response), strip(review.df[r])>>

cached(key) == {e \in review.review_cache : e.key = key}

\* the row's assignment after the verdict, its correction counted and its
\* cell recorded when it changed (reviewer.py 185-194)
review_store(corrected_codes, key, queried, reply) ==
  LET assigned_codes == review.df[review_row]
      formatted_corrected_codes == format_codes(split(corrected_codes, ";"))
      changed == formatted_corrected_codes # assigned_codes
  IN review' =
       [review EXCEPT
          !.df = IF changed THEN [@ EXCEPT ![review_row] = formatted_corrected_codes]
                 ELSE @,
          !.corrections_made = IF changed THEN @ + 1 ELSE @,
          !.modified_cells =
             IF changed THEN Append(@, cell_address(review.col_idx, review.idx)) ELSE @,
          !.review_cache = IF review.kind = "gemini"
                             THEN @ \cup {[key |-> key, value |-> corrected_codes]}
                             ELSE @,
          !.log = Append(@, [row |-> review_row, key |-> key, queried |-> queried,
                             reply |-> reply, before |-> assigned_codes]),
          !.idx = @ + 1]

\* reviewer.py 182-194: the OpenAI reviewer asks the model for every row; an
\* exception leaves run
review_verify_openai ==
  /\ review # <<>>
  /\ review.kind = "openai"
  /\ review.pc = "rows"
  /\ review.idx < Len(review.df)
  /\ review.original[review_row].response # NaN
  /\ ~review_stopped
  /\ \E reply \in ReviewReplies :
       LET corrected_codes == verify_codes_with_openai(reply) IN
         IF corrected_codes = Error
           THEN review' =
                  [review EXCEPT
                     !.pc = "raised",
                     !.log = Append(@, [row |-> review_row, key |-> cache_key(review_row),
                                        queried |-> TRUE, reply |-> reply,
                                        before |-> review.df[review_row]])]
           ELSE review_store(corrected_codes, cache_key(review_row), TRUE, reply)
  /\ UNCHANGED PROCESS_STOPPED
  /\ review_unchanged

\* gemini_reviewer.py 163-182: the Gemini reviewer asks the model unless the
\* cache holds the row's key
review_verify_gemini ==
  /\ review # <<>>
  /\ review.kind = "gemini"
  /\ review.pc = "rows"
  /\ review.idx < Len(review.df)
  /\ review.original[review_row].response # NaN
  /\ ~review_stopped
  /\ LET key == cache_key(review_row) IN
       IF cached(key) # {}
         THEN \E e \in cached(key) : review_store(e.value, key, FALSE, <<>>)
         ELSE \E reply \in ReviewReplies :
                review_store(verify_codes_with_gemini(reply, review.df[review_row]),
                             key, TRUE, reply)
  /\ UNCHANGED PROCESS_STOPPED
  /\ review_unchanged

\* reviewer.py 199-208: the reviewed table is written and the cells highlighted
review_save ==
  /\ review # <<>>
  /\ \/ review.pc = "rows" /\ (review.idx = Len(review.df) \/ review_stopped)
     \/ review.pc = "clean" /\ review_stopped
  /\ review' = [review EXCEPT !.pc = "saved", !.output = review.df]
  /\ UNCHANGED PROCESS_STOPPED
  /\ review_unchanged

NextReview ==
  \/ review_stop_requested
  \/ review_clean_column
  \/ review_skip_row
  \/ review_verify_openai
  \/ review_verify_gemini
  \/ review_save

SpecReview == InitReview /\ [][NextReview]_vars

\* ---------------------------------------------------------------- C23
\* C23: within one review run, two rows with the same question, trimmed
\* response and current assignment cause at most one model query, and both
\* rows are given the same corrected value.
SameTripleQueriedOnce ==
  review # <<>> =>
    \A a, b \in DOMAIN review.log :
      (a < b /\ review.log[a].key = review.log[b].key /\ review.pc # "raised") =>
        /\ ~review.log[b].queried
        /\ review.df[review.log[a].row] = review.df[review.log[b].row]

\* ---------------------------------------------------------------- C24
\* the number of the sheet column a letter names: A = 1, Z = 26, AA = 27
RECURSIVE column_number(_)
column_number(letter) ==
  IF letter = <<>> THEN 0
  ELSE 26 * column_number(SubSeq(letter, 1, Len(letter) - 1))
       + (CHOOSE n \in DOMAIN Alphabet : Alphabet[n] = letter[Len(letter)])

\* the row at position r - 1 is among the cells recorded for highlighting
recorded(r) == \E n \in DOMAIN review.modified_cells : review.modified_cells[n][2] = (r - 1) + 2

\* the value of row r after the review differs from the one its verdict met
changed_by_review(r) == \E e \in SeqToSet(review.log) : e.row = r /\ review.output[r] # e.before

\* C24: at the end of a review run the corrections count is the number of
\* recorded cells; a cell is recorded and counted exactly when the value
\* stored after the review differs from the assignment before the verdict;
\* each address is the code column's letter with the row position plus 2.
CorrectionsMatchHighlightedCells ==
  (review # <<>> /\ review.pc = "saved") =>
    /\ review.corrections_made = Len(review.modified_cells)
    /\ review.corrections_made = Cardinality({r \in DOMAIN review.output : changed_by_review(r)})
    /\ \A r \in DOMAIN review.output : recorded(r) <=> changed_by_review(r)
    /\ \A n \in DOMAIN review.modified_cells :
         /\ column_number(review.modified_cells[n][1]) = review.col_idx + 1
         /\ \E r \in DOMAIN review.output : review.modified_cells[n][2] = (r - 1) + 2

CorrectionsMatchHighlightedCellsWitness ==
  /\ review # <<>>
  /\ review.pc = "saved"
  /\ review.col_idx = 27
  /\ review.corrections_made = 1
  /\ review.modified_cells = << <<(<<"A", "B">>), 3>> >>
  /\ Len(review.log) = 2
  /\ review.output[1] = review.log[1].before
  /\ review.log[2].before = <<>>
  /\ review.output[2] = <<"0", "1">>

\* ---------------------------------------------------------------- C29
\* the ';'-separated elements of a cleaned assignment
elements(text) == IF text = <<>> THEN <<>> ELSE split(text, ";")

\* the assignment names at least one code
holds_code(text) ==
  \E c \in SeqToSet(split(remove_char(remove_char(remove_char(text, "["), "]"), "'"), ";")) :
    isdigit(strip(c))

\* the code column has been normalised and no row has been reviewed yet
column_cleaned == review # <<>> /\ review.pc = "rows" /\ review.idx = 0

\* C29: clean_codes gives a ';'-separated list of pairwise distinct two-digit
\* codes, with a sentinel (66, 77, 88, 99) only as its sole element, and not
\* empty when the input held a code.
CleanCodesNormalForm ==
  column_cleaned =>
    \A r \in DOMAIN review.df :
      LET out == elements(review.df[r]) IN
        /\ \A n \in DOMAIN out : Len(out[n]) = 2 /\ isdigit(out[n])
        /\ \A m, n \in DOMAIN out : m # n => out[m] # out[n]
        /\ \A n \in DOMAIN out : out[n] \in priority_codes => Len(out) = 1
        /\ holds_code(review.original[r].assigned) => out # <<>>

\* ---------------------------------------------------------------- C30
\* the model call of a logged row failed or its reply names no code
verdict_failed(e) ==
  /\ e.queried
  /\ \/ e.reply \in {Error, None}
     \/ ~\E c \in SeqToSet(split(e.reply, ";")) : isdigit(strip(c))

\* C30: when the model call for a row fails or its reply has no code, the
\* row keeps its assignment, is neither counted nor highlighted, and the run
\* goes on to write the reviewed output.
FailedVerdictKeepsAssignment ==
  review # <<>> =>
    /\ review.pc # "raised"
    /\ \A e \in SeqToSet(review.log) :
         verdict_failed(e) =>
           /\ review.df[e.row] = e.before
           /\ ~recorded(e.row)

\* ---------------------------------------------------------------- C25
RECURSIVE unique_count(_, _)
unique_count(df, n) ==
  IF n = 0 THEN 0
  ELSE unique_count(df, n - 1) +
       (IF response_columns[n] \in TableColumns
          THEN Len(unique_responses(df, response_columns[n])) ELSE 0)

\* total_records of process_responses (logic.py 443-447)
total_records == unique_count(responses_df, Len(response_columns))

\* processed_records of process_other_columns once the cell under the cursor
\* is merged: one for every (answered row, question) pair so far, counted
\* from 0 at the call (logic.py 624, 701)
other_processed_records ==
  Cardinality({r \in 1..(j - 1) : responses_df[r][col] # NaN}) * Len(items) + k

\* C25: every progress value passed to the progress callback lies in
\* [0.0, 1.0]: the processed count never exceeds the total.  Stated for the
\* values an open-ended column reports.
ProgressWithinUnitInterval ==
  [][(OtherClassify /\ total_records > 0) => other_processed_records <= total_records]_vars

\* ---------------------------------------------------------------- C26
\* the background tasks of session s whose worker has begun and not returned
running_workers(s) ==
  {t \in DOMAIN tasks : tasks[t].session = s /\ tasks[t].pc \in {"started", "loaded"}}

\* C26: for one session at most one worker is executing at any time.
OneWorkerPerSession ==
  \A s \in Sessions : Cardinality(running_workers(s)) <= 1

\* ---------------------------------------------------------------- C28
\* the codebook rows that carry question q, alone or jointly with others
rows_of_question(cb, q) == {n \in DOMAIN cb : q \in split_questions(cb[n].Pregunta)}

\* no question of codebook cb has two rows whose labels normalise alike
labels_distinct(cb) ==
  \A n \in DOMAIN cb : \A q \in split_questions(cb[n].Pregunta) :
    \A a, b \in rows_of_question(cb, q) :
      a # b => normalize_text(cb[a].Label) # normalize_text(cb[b].Label)

\* C28: a classification never leaves a question with two codebook rows
\* whose labels normalise to the same text, when the codebook it started
\* from had none.
NoDuplicateLabelPerQuestion ==
  (called /\ labels_distinct(unit.last.codes_df)) => labels_distinct(unit.codes_df)

\* ---------------------------------------------------------------- C31
\* the step asks the model about a row
review_model_call ==
  /\ Len(review'.log) = Len(review.log) + 1
  /\ review'.log[Len(review'.log)].queried

\* C31: once stop has been requested while a review run executes, the run
\* issues no further model call.
StoppedReviewMakesNoModelCall ==
  [][(review # <<>> /\ PROCESS_STOPPED) => ~review_model_call]_vars

\* ---------------------------------------------------------------- C32
\* C32: a coding run started through start or resume never ends in status
\* 'error'.
CodingRunNeverEndsInError ==
  \A t \in DOMAIN tasks : tasks[t].pc # "error"

\* ---------------------------------------------------------------- C33
\* C33: once a stop request has set a session's status to 'stopped', the
\* status stays 'stopped' until the task of a newly accepted request sets it
\* to 'processing'.
StoppedStatusStays ==
  [][\A s \in Sessions :
       session_status[s] = "stopped" => session_status'[s] \in {"stopped", "processing"}]_vars

\* ---------------------------------------------------------------- C34
\* a stop was requested for session s and its worker has not returned
stopped_run_executing(s) == session_status[s] = "stopped" /\ running_workers(s) # {}

\* C34: from the stop request until the stopped run returns, the stop flag
\* stays set.
StopFlagStaysSet ==
  [][(PROCESS_STOPPED /\ \E s \in Sessions : stopped_run_executing(s)) => PROCESS_STOPPED']_vars

\* ---------------------------------------------------------------- C35
\* the step is a stop request for session s
stop_requested_for(s) == session_status[s] = "processing" /\ session_status'[s] = "stopped"

stopped_before_model_call ==
  /\ pc = "closed_loop"
  /\ j' = j + 1
  /\ ~PROCESS_STOPPED
  /\ PROCESS_STOPPED'
  /\ model_calls' = model_calls

\* C36: a value whose model call is cancelled by the stop flag gets no newly
\* written code.
CancelledValueStaysUncoded ==
  [][stopped_before_model_call => responses_df' = responses_df]_vars

\* ---------------------------------------------------------------- C37
\* C37: across a run and its resumptions the labels minted for one column
\* never exceed the column's configured maximum.
MintedAcrossRunsWithinLimit ==
  unit # <<>> => unit.minted <= unit.max

\* ---------------------------------------------------------------- C38
\* what process_response may return for the value under the cursor of a
\* closed column, given the question, the reply to the classification prompt
\* and the reply to the minting prompt
closed_outcomes(question, reply, mintReply) ==
  process_response(question, response, questions_dict[question], col_counters[col],
                   config.maxNewLabels, updated_codes_df, questions_dict,
                   closed_max_labels(config), FALSE, FALSE, reply, {mintReply})

\* C38: on the same tables, configuration and model replies a run produces
\* the same result: one question classifies the closed column, and the
\* assignment and the codebook are determined by the replies.
RunIsDeterministic ==
  (in_closed_loop /\ ~PROCESS_STOPPED) =>
    /\ Cardinality(relevant_questions \cap DOMAIN questions_dict) <= 1
    /\ \A question \in relevant_questions \cap DOMAIN questions_dict,
          reply \in ClassReplies, mintReply \in MintReplies :
         Cardinality(closed_outcomes(question, reply, mintReply)) = 1

\* ---------------------------------------------------------------- C39
\* C39: the reviewer validates a column against the codebook rows whose
\* dash-separated field-id list contains exactly the column's code column,
\* the rows the coding pipeline uses for it.
ReviewerUsesPipelineRows ==
  (review # <<>> /\ review.pc # "clean" /\ review.valid_rows # {}) =>
    review.valid_rows = pipeline_codes_df(ReviewCodebook, review_column)

\* ---------------------------------------------------------------- C40
\* the closed columns of the run that map to a question of the codebook
mapped_closed_columns ==
  {c \in SeqToSet(response_columns) \cap TableColumns :
     ~is_other(c) /\ column_to_questions(codes_df, c) \cap DOMAIN questions_dict # {}}

\* C40: after a run that completes without stop, every row with a response
\* in a closed column that maps to a question has a non-empty assignment.
CompletedRunCodesEveryResponse ==
  (pc = "returned" /\ ~PROCESS_STOPPED) =>
    \A c \in mapped_closed_columns : \A r \in DOMAIN responses_df :
      responses_df[r][c] # NaN =>
        /\ responses_df[r][code_column(c)] # NaN
        /\ strip(responses_df[r][code_column(c)]) # <<>>

====
